---- MODULE Spec2Model ----
(***************************************************************************)
(* Model of the incremental time-series cache of the repository:           *)
(* DataDownloader (src/data_manager/data_downloader.py) with its SQLite    *)
(* table market_data, its downloader registry and get_data.                *)
(*                                                                         *)
(* Time.  A datetime is an instant counted in ticks since the epoch, with  *)
(* TicksPerSecond ticks to the second, so that a request window may carry  *)
(* a fraction of a second (datetime.now() in src/example_data_manager.py)  *)
(* while the table stores whole epoch seconds.  The host clock is taken to *)
(* be UTC: datetime.timestamp() of a naive datetime and                    *)
(* pd.to_datetime(unit='s') then disagree by nothing but the truncation.   *)
(*                                                                         *)
(* Frames.  A DataFrame indexed by (timestamp, symbol) is a sequence of    *)
(* rows [timestamp, symbol, val]; val stands for the tuple                 *)
(* (open, high, low, close, volume), which the code always moves as one.   *)
(* pd.DataFrame() is the empty sequence.                                   *)
(*                                                                         *)
(* Above the downloader the module models DataManager                      *)
(* (src/data_manager/data_manager.py), Book and Trade (src/book) and       *)
(* TwoCandleStrategy (src/trading_strategy), each under a specification    *)
(* of its own.  Quantities, prices and volumes are whole numbers of a      *)
(* smallest unit; float rounding is not modelled.                          *)
(***************************************************************************)
EXTENDS Integers, Sequences, FiniteSets, TLC

VARIABLES
    store,          \* rows of table market_data
    downloaders,    \* self._downloaders: the registered source names
    use_cache,      \* self.use_cache
    pc,             \* position of the get_data call
    symbols,        \* get_data arguments
    start_date,
    end_date,
    interval,
    source,
    idx,            \* position in symbols of the symbol being processed
    cached_data,    \* what _get_cached_data returned for that symbol
    missing_ranges, \* what _identify_missing_ranges returned for it
    gap_idx,        \* position in missing_ranges of the next gap
    all_data,       \* the list of frames collected so far
    result,         \* the frame get_data returned
    outcome,        \* how the call ended
    log,            \* history: queries, downloads and writes of the call
    prev,           \* history: <<result and log of the call before a repeat>>
    dl_pc,          \* position of the BinanceDataDownloader.download call
    dl_caller,      \* who called download: get_data or another caller
    dl_symbols,     \* download arguments
    dl_start,
    dl_end,
    dl_interval,
    batches,        \* what _create_batches returned
    dl_sym,         \* position in dl_symbols of the symbol being downloaded
    batch_idx,      \* position in batches of the next batch
    symbol_data,    \* the frames of the symbol's batches so far
    dl_all_data,    \* download's list of per-symbol frames
    dl_result,      \* the frame download returned
    dl_log,         \* history: the fetches of the download call
    data_cache,     \* DataManager._data_cache
    cache_valid,    \* DataManager._cache_valid
    generators,     \* InstrumentGenerator._generators: registered symbols
    last_data,      \* history: what the last DataManager.get_data that
                    \* returned rows returned, since construction or clear
    mg_status,      \* history: how the latest DataManager.get_data ended
    book_name,      \* Book.name
    trades,         \* Book._trades
    positions,      \* Book._positions: the Position objects
    strategy_registry, \* Book._strategy_registry: pairs <<id, name>>
    add_calls,      \* history: the number of add_trade calls
    file,           \* the JSON document Book.save wrote
    loaded,         \* the Book that Book.load returned from that document
    st_time,        \* get_suggested_trades arguments
    st_symbol,
    available,      \* what get_available_data returned to the strategy
    suggested       \* what get_suggested_trades returned

vars == <<store, downloaders, use_cache, pc, symbols, start_date, end_date,
          interval, source, idx, cached_data, missing_ranges, gap_idx,
          all_data, result, outcome, log, prev, dl_pc, dl_caller, dl_symbols,
          dl_start, dl_end, dl_interval, batches, dl_sym, batch_idx,
          symbol_data, dl_all_data, dl_result, dl_log, data_cache,
          cache_valid, generators, last_data, mg_status, book_name, trades,
          positions, strategy_registry, add_calls, file, loaded, st_time,
          st_symbol, available, suggested>>

\* the state of a download call
dlvars == <<dl_pc, dl_caller, dl_symbols, dl_start, dl_end, dl_interval,
            batches, dl_sym, batch_idx, symbol_data, dl_all_data, dl_result,
            dl_log>>

\* the state of DataDownloader and of a get_data call, the table aside
gdvars == <<downloaders, use_cache, pc, symbols, start_date, end_date,
            interval, source, idx, cached_data, missing_ranges, gap_idx,
            all_data, result, outcome, log, prev>>

callvars == <<symbols, start_date, end_date, interval, source>>

\* the state of DataManager, the downloader aside
mgvars == <<data_cache, cache_valid, generators, last_data, mg_status>>

\* the state of a Book, of the file it was saved to and of the Book
\* loaded from it
bkvars == <<book_name, trades, positions, strategy_registry, add_calls,
            file, loaded>>

\* the state of a get_suggested_trades call
stvars == <<st_time, st_symbol, available, suggested>>

\* everything above the downloader
appvars == <<mgvars, bkvars, stvars>>

----------------------------------------------------------------------------
(* Bounds and domains *)

MaxSec == 2
TicksPerSecond == 2
MaxSymbols == 2

SymbolOrder == <<"X", "Y">>
Symbols == {SymbolOrder[i] : i \in 1..Len(SymbolOrder)}
Values == {"a", "b"}
Intervals == {"1h"}
Sources == {"binance"}

\* Python's None where a frame is expected: a value that is no frame of rows
None == <<[none |-> TRUE]>>
\* no argument yet
NoName == ""
Seconds == 0..MaxSec

FromEpochSeconds(s) == s * TicksPerSecond

\* int(d.timestamp()): the fraction of a second is cut off
ToEpochSeconds(d) == d \div TicksPerSecond

\* request instants: every whole second and one instant inside each second
Instants == {FromEpochSeconds(s) + f : s \in Seconds, f \in {0, 1}}

SymbolLists == UNION {[1..n -> Symbols] : n \in 0..MaxSymbols}

----------------------------------------------------------------------------
(* Helpers on frames *)

Min(S) == CHOOSE x \in S : \A y \in S : x <= y
Max(S) == CHOOSE x \in S : \A y \in S : x >= y

Rank(sym) == CHOOSE i \in 1..Len(SymbolOrder) : SymbolOrder[i] = sym

Key(row) == <<row.timestamp, row.symbol>>

\* order of the multi-index (timestamp, symbol)
KeyLeq(r1, r2) ==
    \/ r1.timestamp < r2.timestamp
    \/ r1.timestamp = r2.timestamp /\ Rank(r1.symbol) <= Rank(r2.symbol)

RECURSIVE Concat(_)
Concat(frames) ==
    IF frames = <<>> THEN <<>>
    ELSE Head(frames) \o Concat(Tail(frames))

\* insert after every row whose key is not greater: the sort is stable
RECURSIVE InsertSorted(_, _)
InsertSorted(row, sorted) ==
    IF sorted = <<>> THEN <<row>>
    ELSE IF KeyLeq(Head(sorted), row)
         THEN <<Head(sorted)>> \o InsertSorted(row, Tail(sorted))
         ELSE <<row>> \o sorted

\* mutant of SortIndex: the frames are concatenated and never sorted
SortIndexSkipped(frame) == frame

RECURSIVE SortIndexFrom(_, _)
SortIndexFrom(frame, sorted) ==
    IF frame = <<>> THEN sorted
    ELSE SortIndexFrom(Tail(frame), InsertSorted(Head(frame), sorted))

SortIndex(frame) == SortIndexFrom(frame, <<>>)

\* mutant of DropDuplicatedKeepLast: keep='first'
RECURSIVE DropDuplicatedKeepFirst(_)
DropDuplicatedKeepFirst(frame) ==
    IF frame = <<>> THEN <<>>
    ELSE LET n == Len(frame)
         IN  IF \E j \in 1..(n - 1) : Key(frame[j]) = Key(frame[n])
             THEN DropDuplicatedKeepFirst(SubSeq(frame, 1, n - 1))
             ELSE DropDuplicatedKeepFirst(SubSeq(frame, 1, n - 1)) \o <<frame[n]>>

\* frame[~frame.index.duplicated(keep='last')]
RECURSIVE DropDuplicatedKeepLast(_)
DropDuplicatedKeepLast(frame) ==
    IF frame = <<>> THEN <<>>
    ELSE IF \E j \in 2..Len(frame) : Key(frame[j]) = Key(Head(frame))
         THEN DropDuplicatedKeepLast(Tail(frame))
         ELSE <<Head(frame)>> \o DropDuplicatedKeepLast(Tail(frame))

Combine(frames) == DropDuplicatedKeepLast(SortIndex(Concat(frames)))

----------------------------------------------------------------------------
(* The Store: table market_data, PRIMARY KEY (symbol, timestamp, interval, *)
(* source).  A record is [symbol, timestamp, val, source, interval] with   *)
(* timestamp in epoch seconds.                                             *)

SameKey(r1, r2) ==
    /\ r1.symbol = r2.symbol
    /\ r1.timestamp = r2.timestamp
    /\ r1.interval = r2.interval
    /\ r1.source = r2.source

\* mutant of InsertOrReplace: a plain INSERT into a table without the key
InsertAppend(st, rec) == st \cup {rec}

\* mutant of InsertOrReplace: the symbol's other records are deleted
InsertReplacingSymbol(st, rec) == {r \in st : r.symbol # rec.symbol} \cup {rec}

\* INSERT OR REPLACE INTO market_data
InsertOrReplace(st, rec) == {r \in st : ~SameKey(r, rec)} \cup {rec}

\* mutant of SaveToCache: nothing is written
SaveToCacheSkipped(st, data, src, iv) == st

RECURSIVE SaveToCache(_, _, _, _)
SaveToCache(st, data, src, iv) ==
    IF data = <<>> THEN st
    ELSE SaveToCache(
             InsertOrReplace(st, [symbol    |-> Head(data).symbol,
                                  timestamp |-> ToEpochSeconds(Head(data).timestamp),
                                  val       |-> Head(data).val,
                                  source    |-> src,
                                  interval  |-> iv]),
             Tail(data), src, iv)

\* ORDER BY timestamp
RECURSIVE OrderByTimestamp(_)
OrderByTimestamp(recs) ==
    IF recs = {} THEN <<>>
    ELSE LET first == CHOOSE r \in recs : \A q \in recs : r.timestamp <= q.timestamp
         IN  <<first>> \o OrderByTimestamp(recs \ {first})

\* mutant of GetCachedData: no condition on interval and source
GetCachedDataAnyLabel(st, sym, start, end, iv, src) ==
    LET start_ts == ToEpochSeconds(start)
        end_ts   == ToEpochSeconds(end)
        recs     == {r \in st : /\ r.symbol = sym
                                /\ r.timestamp >= start_ts
                                /\ r.timestamp <= end_ts}
        df       == OrderByTimestamp(recs)
    IN  IF df = <<>> THEN None
        ELSE [i \in 1..Len(df) |->
                 [timestamp |-> FromEpochSeconds(df[i].timestamp),
                  symbol    |-> df[i].symbol,
                  val       |-> df[i].val]]

GetCachedData(st, sym, start, end, iv, src) ==
    LET start_ts == ToEpochSeconds(start)
        end_ts   == ToEpochSeconds(end)
        recs     == {r \in st : /\ r.symbol = sym
                                /\ r.timestamp >= start_ts
                                /\ r.timestamp <= end_ts
                                /\ r.interval = iv
                                /\ r.source = src}
        df       == OrderByTimestamp(recs)
    IN  IF df = <<>> THEN None
        ELSE [i \in 1..Len(df) |->
                 [timestamp |-> FromEpochSeconds(df[i].timestamp),
                  symbol    |-> df[i].symbol,
                  val       |-> df[i].val]]

----------------------------------------------------------------------------
(* The Gap Detector *)

Timestamps(frame) == {frame[i].timestamp : i \in 1..Len(frame)}

\* mutant of IdentifyMissingRanges: <= and >= where the code has < and >
IdentifyMissingRangesInclusive(cached, start, end, iv) ==
    IF cached = <<>> THEN << <<start, end>> >>
    ELSE LET first_cached == Min(Timestamps(cached))
             last_cached  == Max(Timestamps(cached))
             leading  == IF start <= first_cached
                         THEN << <<start, first_cached>> >> ELSE <<>>
             trailing == IF end >= last_cached
                         THEN << <<last_cached, end>> >> ELSE <<>>
         IN  leading \o trailing

\* mutant of IdentifyMissingRanges: a hole between two cached timestamps
\* more than one second apart is reported as a gap too
IdentifyMissingRangesHoles(cached, start, end, iv) ==
    IF cached = <<>> THEN << <<start, end>> >>
    ELSE LET first_cached == Min(Timestamps(cached))
             last_cached  == Max(Timestamps(cached))
             leading  == IF start < first_cached
                         THEN << <<start, first_cached>> >> ELSE <<>>
             holes    == IF \E i \in 1..(Len(cached) - 1) :
                                cached[i + 1].timestamp - cached[i].timestamp
                                    > TicksPerSecond
                         THEN << <<first_cached, last_cached>> >> ELSE <<>>
             trailing == IF end > last_cached
                         THEN << <<last_cached, end>> >> ELSE <<>>
         IN  leading \o holes \o trailing

\* mutant of IdentifyMissingRanges: the trailing gap comes first
IdentifyMissingRangesTrailingFirst(cached, start, end, iv) ==
    IF cached = <<>> THEN << <<start, end>> >>
    ELSE LET first_cached == Min(Timestamps(cached))
             last_cached  == Max(Timestamps(cached))
             leading  == IF start < first_cached
                         THEN << <<start, first_cached>> >> ELSE <<>>
             trailing == IF end > last_cached
                         THEN << <<last_cached, end>> >> ELSE <<>>
         IN  trailing \o leading

IdentifyMissingRanges(cached, start, end, iv) ==
    IF cached = <<>> THEN << <<start, end>> >>
    ELSE LET first_cached == Min(Timestamps(cached))
             last_cached  == Max(Timestamps(cached))
             leading  == IF start < first_cached
                         THEN << <<start, first_cached>> >> ELSE <<>>
             trailing == IF end > last_cached
                         THEN << <<last_cached, end>> >> ELSE <<>>
         IN  leading \o trailing

----------------------------------------------------------------------------
(* The backend registered under a source name.  download([symbol], start,  *)
(* end, interval) either raises or returns a frame of rows of that symbol  *)
(* at whole seconds inside the range: which seconds it has data for, and   *)
(* which values, is the backend's choice.                                  *)

Raise == [raised |-> TRUE, rows |-> <<>>]

Returns(frame) == [raised |-> FALSE, rows |-> frame]

\* the seconds a download over (start, end) can return rows for: no batch
\* is created unless start < end, and each bound is sent to the second
DownloadSeconds(start, end) ==
    IF start < end
    THEN {s \in Seconds : ToEpochSeconds(start) <= s /\ s <= ToEpochSeconds(end)}
    ELSE {}

RECURSIVE FrameOf(_, _, _)
FrameOf(sym, secs, v) ==
    IF secs = {} THEN <<>>
    ELSE <<[timestamp |-> FromEpochSeconds(Min(secs)), symbol |-> sym, val |-> v]>>
         \o FrameOf(sym, secs \ {Min(secs)}, v)

Responses(sym, start, end) ==
    {Raise} \cup {Returns(FrameOf(sym, secs, v)) :
                     secs \in SUBSET DownloadSeconds(start, end), v \in Values}

----------------------------------------------------------------------------
(* Initial state: a DataDownloader constructed on a database file that may *)
(* already hold records of earlier runs (CREATE TABLE IF NOT EXISTS), with *)
(* an empty registry.                                                      *)

InitSymbols == {"X"}
InitValues == {"a"}
Absent == "-"

StoreOf(f) ==
    {[symbol |-> k[1], timestamp |-> k[2], val |-> f[k],
      source |-> k[3], interval |-> k[4]] :
        k \in {q \in DOMAIN f : f[q] # Absent}}

InitStores ==
    {StoreOf(f) : f \in [InitSymbols \X Seconds \X Sources \X Intervals
                             -> InitValues \cup {Absent}]}

\* no download call yet
DownloadIdle ==
    /\ dl_pc = "idle"
    /\ dl_caller = NoName
    /\ dl_symbols = <<>>
    /\ dl_start = 0
    /\ dl_end = 0
    /\ dl_interval = NoName
    /\ batches = <<>>
    /\ dl_sym = 0
    /\ batch_idx = 0
    /\ symbol_data = <<>>
    /\ dl_all_data = <<>>
    /\ dl_result = None
    /\ dl_log = <<>>

\* a DataManager just constructed (lines 31-35 of data_manager.py)
ManagerIdle ==
    /\ data_cache = None
    /\ cache_valid = FALSE
    /\ generators = {}
    /\ last_data = None
    /\ mg_status = "none"

\* Book() with no trade, never saved (lines 78-82 of book.py)
BookIdle ==
    /\ book_name = "default"
    /\ trades = <<>>
    /\ positions = {}
    /\ strategy_registry = {}
    /\ add_calls = 0
    /\ file = None
    /\ loaded = None

\* a strategy that was not asked yet
StrategyIdle ==
    /\ st_time = 0
    /\ st_symbol = NoName
    /\ available = None
    /\ suggested = None

AppIdle == ManagerIdle /\ BookIdle /\ StrategyIdle

Init ==
    /\ store \in InitStores
    /\ downloaders = {}
    /\ use_cache \in BOOLEAN
    /\ pc = "idle"
    /\ symbols = <<>>
    /\ start_date = 0
    /\ end_date = 0
    /\ interval = NoName
    /\ source = NoName
    /\ idx = 0
    /\ cached_data = None
    /\ missing_ranges = <<>>
    /\ gap_idx = 0
    /\ all_data = <<>>
    /\ result = None
    /\ outcome = "none"
    /\ log = <<>>
    /\ prev = <<>>
    /\ AppIdle
    /\ DownloadIdle

----------------------------------------------------------------------------
(* Operations *)

RegisterDownloader(src) ==
    /\ pc = "idle"
    /\ downloaders' = downloaders \cup {src}
    /\ UNCHANGED <<store, use_cache, pc, callvars, idx, cached_data,
                   missing_ranges, gap_idx, all_data, result, outcome, log, prev>>
    /\ UNCHANGED dlvars
    /\ UNCHANGED appvars

\* mutant of StartCall: the registry is not consulted
StartCallUnchecked(syms, start, end, iv, src) ==
    /\ symbols' = syms
    /\ start_date' = start
    /\ end_date' = end
    /\ interval' = iv
    /\ source' = src
    /\ cached_data' = None
    /\ missing_ranges' = <<>>
    /\ gap_idx' = 0
    /\ all_data' = <<>>
    /\ result' = None
    /\ log' = <<>>
    /\ outcome' = "none"
    /\ pc' = "symbol"
    /\ idx' = 1
    /\ UNCHANGED <<store, downloaders, use_cache>>
    /\ UNCHANGED dlvars
    /\ UNCHANGED appvars

\* get_data, lines 94-98: the registry check and the empty list of frames
StartCall(syms, start, end, iv, src) ==
    /\ symbols' = syms
    /\ start_date' = start
    /\ end_date' = end
    /\ interval' = iv
    /\ source' = src
    /\ cached_data' = None
    /\ missing_ranges' = <<>>
    /\ gap_idx' = 0
    /\ all_data' = <<>>
    /\ result' = None
    /\ log' = <<>>
    /\ IF src \notin downloaders
       THEN /\ outcome' = "ValueError"
            /\ pc' = "done"
            /\ idx' = 0
       ELSE /\ outcome' = "none"
            /\ pc' = "symbol"
            /\ idx' = 1
    /\ UNCHANGED <<store, downloaders, use_cache>>
    /\ UNCHANGED dlvars
    /\ UNCHANGED appvars

GetData(syms, start, end, iv, src) ==
    /\ pc = "idle"
    /\ StartCall(syms, start, end, iv, src)
    /\ UNCHANGED prev

\* mutant of NextSymbol: the frames of the pass are not kept
NextSymbolForgetting(frames) ==
    /\ all_data' = all_data
    /\ idx' = idx + 1
    /\ pc' = "symbol"

\* what one pass of the for loop does after its downloads: line 130 and on
\* to the next symbol
NextSymbol(frames) ==
    /\ all_data' = frames
    /\ idx' = idx + 1
    /\ pc' = "symbol"

\* mutant of ProcessSymbol: the cache is consulted whatever use_cache says
ProcessSymbolAlwaysCaching ==
    /\ pc = "symbol"
    /\ idx <= Len(symbols)
    /\ LET cd == GetCachedData(store, symbols[idx], start_date, end_date,
                               interval, source)
           hit == cd # None /\ cd # <<>>
           mr == IF hit
                 THEN IdentifyMissingRanges(cd, start_date, end_date, interval)
                 ELSE <<>>
       IN  /\ cached_data' = cd
           /\ missing_ranges' = mr
           /\ log' = Append(log, [op |-> "query", pos |-> idx,
                                  symbol |-> symbols[idx], store |-> store,
                                  rows |-> cd, hit |-> hit, ranges |-> mr])
           /\ IF hit
              THEN IF mr # <<>>
                   THEN /\ pc' = "gap"
                        /\ gap_idx' = 1
                        /\ UNCHANGED <<all_data, idx>>
                   ELSE /\ NextSymbol(Append(all_data, cd))
                        /\ gap_idx' = 0
              ELSE /\ pc' = "full"
                   /\ gap_idx' = 0
                   /\ UNCHANGED <<all_data, idx>>
    /\ UNCHANGED <<store, downloaders, use_cache, callvars, result, outcome, prev>>
    /\ UNCHANGED dlvars
    /\ UNCHANGED appvars

\* lines 100-116 and 127-134: the cache query and the gap detection
ProcessSymbol ==
    /\ pc = "symbol"
    /\ idx <= Len(symbols)
    /\ LET cd == GetCachedData(store, symbols[idx], start_date, end_date,
                               interval, source)
           hit == use_cache /\ cd # None /\ cd # <<>>
           mr == IF hit
                 THEN IdentifyMissingRanges(cd, start_date, end_date, interval)
                 ELSE <<>>
       IN  /\ cached_data' = cd
           /\ missing_ranges' = mr
           /\ log' = Append(log, [op |-> "query", pos |-> idx,
                                  symbol |-> symbols[idx], store |-> store,
                                  rows |-> cd, hit |-> hit, ranges |-> mr])
           /\ IF hit
              THEN IF mr # <<>>
                   THEN /\ pc' = "gap"
                        /\ gap_idx' = 1
                        /\ UNCHANGED <<all_data, idx>>
                   ELSE /\ NextSymbol(Append(all_data, cd))
                        /\ gap_idx' = 0
              ELSE /\ pc' = "full"
                   /\ gap_idx' = 0
                   /\ UNCHANGED <<all_data, idx>>
    /\ UNCHANGED <<store, downloaders, use_cache, callvars, result, outcome, prev>>
    /\ UNCHANGED dlvars
    /\ UNCHANGED appvars

DownloadEvent(sym, from, to, resp) ==
    [op |-> "download", pos |-> idx, symbol |-> sym, from |-> from,
     to |-> to, resp |-> resp]

SaveEvent(data) == [op |-> "save", pos |-> idx, rows |-> data]

\* an exception of download leaves get_data: nothing in it catches
Raised(ev) ==
    /\ outcome' = "raised"
    /\ pc' = "done"
    /\ log' = Append(log, ev)
    /\ UNCHANGED <<store, all_data, idx, gap_idx, result>>

\* how a write of a frame to the table can end: _save_to_cache returns at
\* once on an empty frame, otherwise sqlite3 may raise (locked, read-only or
\* full database)
SaveOutcomes(data) == IF data = <<>> THEN {"ok"} ELSE {"ok", "error"}

SaveErrorEvent(data) == [op |-> "save_error", pos |-> idx, rows |-> data]

\* mutant of SaveRaised: every INSERT is committed by itself, the first row
\* of the frame is in the table when a later one fails
SaveRaisedPartial(ev, data) ==
    /\ outcome' = "raised"
    /\ pc' = "done"
    /\ log' = log \o <<ev, SaveErrorEvent(data)>>
    /\ store' = SaveToCache(store, <<Head(data)>>, source, interval)
    /\ UNCHANGED <<all_data, idx, gap_idx, result>>

\* an exception of _save_to_cache leaves get_data as well; the transaction
\* was not committed, the table is as it was
SaveRaised(ev, data) ==
    /\ outcome' = "raised"
    /\ pc' = "done"
    /\ log' = log \o <<ev, SaveErrorEvent(data)>>
    /\ UNCHANGED <<store, all_data, idx, gap_idx, result>>

\* mutant of DownloadGap: an empty answer ends the gaps of the symbol
DownloadGapStopOnEmpty ==
    /\ pc = "gap"
    /\ LET sym == symbols[idx]
           gap == missing_ranges[gap_idx]
       IN  \E resp \in Responses(sym, gap[1], gap[2]) :
           \E wr \in SaveOutcomes(resp.rows) :
             LET ev == DownloadEvent(sym, gap[1], gap[2], resp)
                 new_data == resp.rows
                 frames == IF new_data # <<>> THEN Append(all_data, new_data)
                           ELSE all_data
             IN  IF resp.raised THEN Raised(ev)
                 ELSE IF wr = "error" THEN SaveRaised(ev, new_data)
                 ELSE /\ store' = SaveToCache(store, new_data, source, interval)
                      /\ log' = IF new_data # <<>>
                                THEN log \o <<ev, SaveEvent(new_data)>>
                                ELSE Append(log, ev)
                      /\ IF gap_idx < Len(missing_ranges) /\ new_data # <<>>
                         THEN /\ gap_idx' = gap_idx + 1
                              /\ all_data' = frames
                              /\ UNCHANGED <<idx, pc>>
                         ELSE /\ NextSymbol(Append(frames, cached_data))
                              /\ gap_idx' = 0
                      /\ UNCHANGED <<result, outcome>>
    /\ UNCHANGED <<downloaders, use_cache, callvars, cached_data,
                   missing_ranges, prev>>
    /\ UNCHANGED dlvars
    /\ UNCHANGED appvars

\* lines 118-126 (one gap) and, after the last gap, line 130
DownloadGap ==
    /\ pc = "gap"
    /\ LET sym == symbols[idx]
           gap == missing_ranges[gap_idx]
       IN  \E resp \in Responses(sym, gap[1], gap[2]) :
           \E wr \in SaveOutcomes(resp.rows) :
             LET ev == DownloadEvent(sym, gap[1], gap[2], resp)
                 new_data == resp.rows
                 frames == IF new_data # <<>> THEN Append(all_data, new_data)
                           ELSE all_data
             IN  IF resp.raised THEN Raised(ev)
                 ELSE IF wr = "error" THEN SaveRaised(ev, new_data)
                 ELSE /\ store' = SaveToCache(store, new_data, source, interval)
                      /\ log' = IF new_data # <<>>
                                THEN log \o <<ev, SaveEvent(new_data)>>
                                ELSE Append(log, ev)
                      /\ IF gap_idx < Len(missing_ranges)
                         THEN /\ gap_idx' = gap_idx + 1
                              /\ all_data' = frames
                              /\ UNCHANGED <<idx, pc>>
                         ELSE /\ NextSymbol(Append(frames, cached_data))
                              /\ gap_idx' = 0
                      /\ UNCHANGED <<result, outcome>>
    /\ UNCHANGED <<downloaders, use_cache, callvars, cached_data,
                   missing_ranges, prev>>
    /\ UNCHANGED dlvars
    /\ UNCHANGED appvars

\* lines 131-143: nothing cached (or use_cache off), the whole range
DownloadFull ==
    /\ pc = "full"
    /\ LET sym == symbols[idx]
       IN  \E resp \in Responses(sym, start_date, end_date) :
           \E wr \in SaveOutcomes(resp.rows) :
             LET ev == DownloadEvent(sym, start_date, end_date, resp)
                 new_data == resp.rows
             IN  IF resp.raised THEN Raised(ev)
                 ELSE IF wr = "error" THEN SaveRaised(ev, new_data)
                 ELSE /\ store' = SaveToCache(store, new_data, source, interval)
                      /\ log' = IF new_data # <<>>
                                THEN log \o <<ev, SaveEvent(new_data)>>
                                ELSE Append(log, ev)
                      /\ NextSymbol(IF new_data # <<>>
                                    THEN Append(all_data, new_data)
                                    ELSE all_data)
                      /\ UNCHANGED <<gap_idx, result, outcome>>
    /\ UNCHANGED <<downloaders, use_cache, callvars, cached_data,
                   missing_ranges, prev>>
    /\ UNCHANGED dlvars
    /\ UNCHANGED appvars

\* mutant of Return: no check for an empty list, pd.concat([]) raises
ReturnWithoutEmptyCheck ==
    /\ pc = "symbol"
    /\ idx > Len(symbols)
    /\ IF all_data = <<>>
       THEN /\ outcome' = "raised"
            /\ UNCHANGED result
       ELSE /\ outcome' = "returned"
            /\ result' = Combine(all_data)
    /\ pc' = "done"
    /\ UNCHANGED <<store, downloaders, use_cache, callvars, idx, cached_data,
                   missing_ranges, gap_idx, all_data, log, prev>>
    /\ UNCHANGED dlvars
    /\ UNCHANGED appvars

\* lines 145-155
Return ==
    /\ pc = "symbol"
    /\ idx > Len(symbols)
    /\ result' = IF all_data = <<>> THEN <<>> ELSE Combine(all_data)
    /\ outcome' = "returned"
    /\ pc' = "done"
    /\ UNCHANGED <<store, downloaders, use_cache, callvars, idx, cached_data,
                   missing_ranges, gap_idx, all_data, log, prev>>
    /\ UNCHANGED dlvars
    /\ UNCHANGED appvars

\* the same call once more, as in example_caching
GetDataAgain ==
    /\ pc = "done"
    /\ outcome = "returned"
    /\ prev = <<>>
    /\ prev' = <<[result |-> result, log |-> log]>>
    /\ StartCall(symbols, start_date, end_date, interval, source)

Next ==
    \/ \E src \in Sources : RegisterDownloader(src)
    \/ \E syms \in SymbolLists, start \in Instants, end \in Instants,
          iv \in Intervals, src \in Sources :
           GetData(syms, start, end, iv, src)
    \/ ProcessSymbol
    \/ DownloadGap
    \/ DownloadFull
    \/ Return

Spec == Init /\ [][Next]_vars

\* the calls of example_caching: one symbol, and the same call again
RepeatLists == {syms \in SymbolLists : Len(syms) = 1}

NextRepeat ==
    \/ \E src \in Sources : RegisterDownloader(src)
    \/ \E syms \in RepeatLists, start \in Instants, end \in Instants,
          iv \in Intervals, src \in Sources :
           GetData(syms, start, end, iv, src)
    \/ ProcessSymbol
    \/ DownloadGap
    \/ DownloadFull
    \/ Return
    \/ GetDataAgain

SpecRepeat == Init /\ [][NextRepeat]_vars

----------------------------------------------------------------------------
(* A restart: the process ends after a call and a new DataDownloader is    *)
(* constructed on the same database file.                                  *)

\* mutant of InitDatabase: the table is created anew
InitDatabaseDropping(st) == {}

\* _init_database: CREATE TABLE IF NOT EXISTS and CREATE INDEX IF NOT
\* EXISTS leave the rows of an existing table alone
InitDatabase(st) == st

\* the first instance is constructed on a new file
InitFresh ==
    /\ store = InitDatabase({})
    /\ downloaders = {}
    /\ use_cache \in BOOLEAN
    /\ pc = "idle"
    /\ symbols = <<>>
    /\ start_date = 0
    /\ end_date = 0
    /\ interval = NoName
    /\ source = NoName
    /\ idx = 0
    /\ cached_data = None
    /\ missing_ranges = <<>>
    /\ gap_idx = 0
    /\ all_data = <<>>
    /\ result = None
    /\ outcome = "none"
    /\ log = <<>>
    /\ prev = <<>>
    /\ AppIdle
    /\ DownloadIdle

\* DataDownloader(db_path, use_cache) once more, after a call of the first
\* instance ended: lines 22-33 on the file as that instance left it
Restart ==
    /\ pc = "done"
    /\ prev = <<>>
    /\ prev' = <<[store |-> store]>>
    /\ store' = InitDatabase(store)
    /\ downloaders' = {}
    /\ use_cache' \in BOOLEAN
    /\ pc' = "idle"
    /\ symbols' = <<>>
    /\ start_date' = 0
    /\ end_date' = 0
    /\ interval' = NoName
    /\ source' = NoName
    /\ idx' = 0
    /\ cached_data' = None
    /\ missing_ranges' = <<>>
    /\ gap_idx' = 0
    /\ all_data' = <<>>
    /\ result' = None
    /\ outcome' = "none"
    /\ log' = <<>>
    /\ UNCHANGED dlvars
    /\ UNCHANGED appvars

NextRestart ==
    \/ \E src \in Sources : RegisterDownloader(src)
    \/ \E syms \in RepeatLists, start \in Instants, end \in Instants,
          iv \in Intervals, src \in Sources :
           GetData(syms, start, end, iv, src)
    \/ ProcessSymbol
    \/ DownloadGap
    \/ DownloadFull
    \/ Return
    \/ Restart

SpecRestart == InitFresh /\ [][NextRestart]_vars

----------------------------------------------------------------------------
(* A database file that also holds records of another interval or of       *)
(* another source, written by calls that named them.                       *)

OtherIntervals == {"1d"}
OtherSources == {"yahoo"}

\* the other (interval, source) labels
OtherLabels ==
    ((Intervals \cup OtherIntervals) \X (Sources \cup OtherSources))
        \ (Intervals \X Sources)

\* the records of a symbol under the given labels, one at every second
RecordsLabelled(sym, labels, v) ==
    {[symbol |-> sym, timestamp |-> s, val |-> v,
      source |-> l[2], interval |-> l[1]] : s \in Seconds, l \in labels}

InitLabels ==
    /\ \E native \in InitStores, labels \in SUBSET OtherLabels \ {{}} :
         store = native \cup UNION {RecordsLabelled(sym, labels, "b") :
                                        sym \in InitSymbols}
    /\ downloaders = {}
    /\ use_cache \in BOOLEAN
    /\ pc = "idle"
    /\ symbols = <<>>
    /\ start_date = 0
    /\ end_date = 0
    /\ interval = NoName
    /\ source = NoName
    /\ idx = 0
    /\ cached_data = None
    /\ missing_ranges = <<>>
    /\ gap_idx = 0
    /\ all_data = <<>>
    /\ result = None
    /\ outcome = "none"
    /\ log = <<>>
    /\ prev = <<>>
    /\ AppIdle
    /\ DownloadIdle

NextLabels ==
    \/ \E src \in Sources : RegisterDownloader(src)
    \/ \E syms \in RepeatLists, start \in Instants, end \in Instants,
          iv \in Intervals, src \in Sources :
           GetData(syms, start, end, iv, src)
    \/ ProcessSymbol
    \/ DownloadGap
    \/ DownloadFull
    \/ Return

SpecLabels == InitLabels /\ [][NextLabels]_vars

----------------------------------------------------------------------------
(* The Batching Planner of BinanceDataDownloader.  Instants and durations  *)
(* are in ticks, as everywhere.                                            *)

MAX_CANDLES_PER_REQUEST == 100

\* interval_map, each timedelta in seconds
interval_map ==
    ("1m" :> 60) @@ ("3m" :> 180) @@ ("5m" :> 300) @@ ("15m" :> 900) @@
    ("30m" :> 1800) @@ ("1h" :> 3600) @@ ("2h" :> 7200) @@ ("4h" :> 14400) @@
    ("6h" :> 21600) @@ ("8h" :> 28800) @@ ("12h" :> 43200) @@
    ("1d" :> 86400) @@ ("3d" :> 259200) @@ ("1w" :> 604800) @@
    ("1M" :> 2592000)

\* timedelta(hours=1)
OneHour == FromEpochSeconds(3600)

\* mutant of GetIntervalDelta: a label outside the table counts as a minute
GetIntervalDeltaMinute(iv) ==
    IF iv \in DOMAIN interval_map THEN FromEpochSeconds(interval_map[iv])
    ELSE FromEpochSeconds(60)

\* interval_map.get(interval, timedelta(hours=1))
GetIntervalDelta(iv) ==
    IF iv \in DOMAIN interval_map THEN FromEpochSeconds(interval_map[iv])
    ELSE OneHour

\* the while loop of _create_batches; min(current_start + batch_size,
\* end_date) is written with a difference, which is the same number
RECURSIVE CreateBatchesFrom(_, _, _)
CreateBatchesFrom(current_start, end, batch_size) ==
    IF current_start < end
    THEN LET current_end == IF end - current_start <= batch_size THEN end
                            ELSE current_start + batch_size
         IN  << <<current_start, current_end>> >>
             \o CreateBatchesFrom(current_end, end, batch_size)
    ELSE <<>>

\* mutant of CreateBatches: a batch as wide as the record limit itself
CreateBatchesFullLimit(start, end, iv) ==
    CreateBatchesFrom(start, end, GetIntervalDelta(iv) * MAX_CANDLES_PER_REQUEST)

CreateBatches(start, end, iv) ==
    CreateBatchesFrom(start, end,
                      GetIntervalDelta(iv) * (MAX_CANDLES_PER_REQUEST - 1))

\* labels handed to the planner: those of the table and two that are not
UnknownLabels == {"7x", "1H"}
Labels == DOMAIN interval_map \cup UnknownLabels

\* window bounds in interval steps: around one batch, around two, and the
\* 250 steps of two and a half record limits
PlannerSteps ==
    {0, 1, MAX_CANDLES_PER_REQUEST - 1, MAX_CANDLES_PER_REQUEST,
     2 * (MAX_CANDLES_PER_REQUEST - 1), (5 * MAX_CANDLES_PER_REQUEST) \div 2}

\* on the interval grid and one tick off it
PlannerInstants(iv) ==
    {k * GetIntervalDelta(iv) + f : k \in PlannerSteps, f \in {0, 1}}

\* a planner about to be called on some label and window
InitPlanner ==
    /\ store = {}
    /\ downloaders = {}
    /\ use_cache = TRUE
    /\ pc = "idle"
    /\ symbols = <<>>
    /\ start_date = 0
    /\ end_date = 0
    /\ interval = NoName
    /\ source = NoName
    /\ idx = 0
    /\ cached_data = None
    /\ missing_ranges = <<>>
    /\ gap_idx = 0
    /\ all_data = <<>>
    /\ result = None
    /\ outcome = "none"
    /\ log = <<>>
    /\ prev = <<>>
    /\ AppIdle
    /\ dl_pc = "plan"
    /\ dl_caller = NoName
    /\ dl_symbols = <<>>
    /\ dl_interval \in Labels
    /\ dl_start \in PlannerInstants(dl_interval)
    /\ dl_end \in PlannerInstants(dl_interval)
    /\ batches = <<>>
    /\ dl_sym = 0
    /\ batch_idx = 0
    /\ symbol_data = <<>>
    /\ dl_all_data = <<>>
    /\ dl_result = None
    /\ dl_log = <<>>

\* _create_batches(start_date, end_date, interval)
CreateBatchesCall ==
    /\ dl_pc = "plan"
    /\ batches' = CreateBatches(dl_start, dl_end, dl_interval)
    /\ dl_pc' = "planned"
    /\ UNCHANGED <<dl_caller, dl_symbols, dl_start, dl_end, dl_interval,
                   dl_sym, batch_idx, symbol_data, dl_all_data, dl_result,
                   dl_log>>
    /\ UNCHANGED <<store, gdvars>>
    /\ UNCHANGED appvars

NextPlanner == CreateBatchesCall

SpecPlanner == InitPlanner /\ [][NextPlanner]_vars

\* mutant of BatchSize: as many interval steps as the record limit
BatchSizeFullLimit(iv) == GetIntervalDelta(iv) * MAX_CANDLES_PER_REQUEST

\* batch_size = interval_delta * (self.MAX_CANDLES_PER_REQUEST - 1)
BatchSize(iv) == GetIntervalDelta(iv) * (MAX_CANDLES_PER_REQUEST - 1)

\* current_start at the head of the while loop: start_date before the
\* first iteration, afterwards the current_end of the batch appended last
CurrentStart ==
    IF batches = <<>> THEN dl_start ELSE batches[Len(batches)][2]

\* one iteration of the while loop of _create_batches
CreateBatchesIterate ==
    /\ dl_pc \in {"plan", "planning"}
    /\ CurrentStart < dl_end
    /\ LET batch_size == BatchSize(dl_interval)
           current_end == IF dl_end - CurrentStart <= batch_size THEN dl_end
                          ELSE CurrentStart + batch_size
       IN  batches' = Append(batches, <<CurrentStart, current_end>>)
    /\ dl_pc' = "planning"
    /\ UNCHANGED <<dl_caller, dl_symbols, dl_start, dl_end, dl_interval,
                   dl_sym, batch_idx, symbol_data, dl_all_data, dl_result,
                   dl_log>>
    /\ UNCHANGED <<store, gdvars>>
    /\ UNCHANGED appvars

\* the loop condition fails: return batches
CreateBatchesReturn ==
    /\ dl_pc \in {"plan", "planning"}
    /\ ~(CurrentStart < dl_end)
    /\ dl_pc' = "planned"
    /\ UNCHANGED <<dl_caller, dl_symbols, dl_start, dl_end, dl_interval,
                   batches, dl_sym, batch_idx, symbol_data, dl_all_data,
                   dl_result, dl_log>>
    /\ UNCHANGED <<store, gdvars>>
    /\ UNCHANGED appvars

NextPlannerLoop ==
    \/ CreateBatchesIterate
    \/ CreateBatchesReturn

\* the call runs on one thread that nothing suspends: an enabled step of
\* the loop is taken
SpecPlannerLoop ==
    InitPlanner /\ [][NextPlannerLoop]_vars /\ WF_vars(NextPlannerLoop)

----------------------------------------------------------------------------
(* BinanceDataDownloader.download, step by step, called by get_data with   *)
(* one symbol (lines 120 and 135) or by another caller with a list, and    *)
(* the write get_data does with what download returned.                    *)

\* call bounds: the epoch, an instant inside a second, one batch later
\* and one more interval step later
DownloadInstants ==
    LET delta == GetIntervalDelta("1h")
        batch_size == delta * (MAX_CANDLES_PER_REQUEST - 1)
    IN  {0, 1, batch_size, batch_size + delta}

\* get_historical_klines(symbol, interval, batch_start, batch_end), both
\* bounds sent to the second and both inclusive: it raises, or returns
\* nothing, or returns the candles of the symbol that open at the two bounds
KlinesResponses(sym, batch_start, batch_end) ==
    {Raise, Returns(<<>>)} \cup
    {Returns(FrameOf(sym, {ToEpochSeconds(batch_start),
                           ToEpochSeconds(batch_end)}, v)) : v \in Values}

InitBinance ==
    /\ store = {}
    /\ downloaders = {}
    /\ use_cache = TRUE
    /\ pc = "idle"
    /\ symbols = <<>>
    /\ start_date = 0
    /\ end_date = 0
    /\ interval = NoName
    /\ source = NoName
    /\ idx = 0
    /\ cached_data = None
    /\ missing_ranges = <<>>
    /\ gap_idx = 0
    /\ all_data = <<>>
    /\ result = None
    /\ outcome = "none"
    /\ log = <<>>
    /\ prev = <<>>
    /\ AppIdle
    /\ DownloadIdle

\* lines 318-336: download is entered
Download(caller, syms, start, end, iv) ==
    /\ dl_pc = "idle"
    /\ dl_pc' = "client"
    /\ dl_caller' = caller
    /\ dl_symbols' = syms
    /\ dl_start' = start
    /\ dl_end' = end
    /\ dl_interval' = iv
    /\ UNCHANGED <<batches, dl_sym, batch_idx, symbol_data, dl_all_data,
                   dl_result, dl_log>>
    /\ UNCHANGED <<store, gdvars>>
    /\ UNCHANGED appvars

\* lines 337-344: the import or Client() raises, outside every try of
\* download
ClientRaises ==
    /\ dl_pc = "client"
    /\ dl_pc' = "raised"
    /\ UNCHANGED <<dl_caller, dl_symbols, dl_start, dl_end, dl_interval,
                   batches, dl_sym, batch_idx, symbol_data, dl_all_data,
                   dl_result, dl_log>>
    /\ UNCHANGED <<store, gdvars>>
    /\ UNCHANGED appvars

\* lines 344-353: the client is there, the batches are planned
ClientReady ==
    /\ dl_pc = "client"
    /\ dl_pc' = "batch"
    /\ batches' = CreateBatches(dl_start, dl_end, dl_interval)
    /\ dl_all_data' = <<>>
    /\ dl_sym' = 1
    /\ batch_idx' = 1
    /\ symbol_data' = <<>>
    /\ UNCHANGED <<dl_caller, dl_symbols, dl_start, dl_end, dl_interval,
                   dl_result, dl_log>>
    /\ UNCHANGED <<store, gdvars>>
    /\ UNCHANGED appvars

FetchEvent(resp) ==
    [pos |-> dl_sym, symbol |-> dl_symbols[dl_sym], batch |-> batch_idx,
     from |-> batches[batch_idx][1], to |-> batches[batch_idx][2],
     resp |-> resp, store |-> store]

\* mutant of FetchBatch: an exception ends the symbol's batches (break)
FetchBatchAborting ==
    /\ dl_pc = "batch"
    /\ dl_sym <= Len(dl_symbols)
    /\ batch_idx <= Len(batches)
    /\ \E resp \in KlinesResponses(dl_symbols[dl_sym], batches[batch_idx][1],
                                   batches[batch_idx][2]) :
         /\ dl_log' = Append(dl_log, FetchEvent(resp))
         /\ symbol_data' = IF resp.raised \/ resp.rows = <<>> THEN symbol_data
                           ELSE Append(symbol_data, resp.rows)
         /\ batch_idx' = IF resp.raised THEN Len(batches) + 1 ELSE batch_idx + 1
    /\ UNCHANGED <<dl_pc, dl_caller, dl_symbols, dl_start, dl_end, dl_interval,
                   batches, dl_sym, dl_all_data, dl_result>>
    /\ UNCHANGED <<store, gdvars>>
    /\ UNCHANGED appvars

\* lines 355-387: one batch; an exception is caught, an empty answer is
\* skipped, and the loop goes on either way
FetchBatch ==
    /\ dl_pc = "batch"
    /\ dl_sym <= Len(dl_symbols)
    /\ batch_idx <= Len(batches)
    /\ \E resp \in KlinesResponses(dl_symbols[dl_sym], batches[batch_idx][1],
                                   batches[batch_idx][2]) :
         /\ dl_log' = Append(dl_log, FetchEvent(resp))
         /\ symbol_data' = IF resp.raised \/ resp.rows = <<>> THEN symbol_data
                           ELSE Append(symbol_data, resp.rows)
         /\ batch_idx' = batch_idx + 1
    /\ UNCHANGED <<dl_pc, dl_caller, dl_symbols, dl_start, dl_end, dl_interval,
                   batches, dl_sym, dl_all_data, dl_result>>
    /\ UNCHANGED <<store, gdvars>>
    /\ UNCHANGED appvars

\* lines 389-396: the symbol's batches are over
CombineSymbol ==
    /\ dl_pc = "batch"
    /\ dl_sym <= Len(dl_symbols)
    /\ batch_idx > Len(batches)
    /\ dl_all_data' = IF symbol_data # <<>>
                      THEN Append(dl_all_data,
                                  DropDuplicatedKeepLast(Concat(symbol_data)))
                      ELSE dl_all_data
    /\ dl_sym' = dl_sym + 1
    /\ batch_idx' = 1
    /\ symbol_data' = <<>>
    /\ UNCHANGED <<dl_pc, dl_caller, dl_symbols, dl_start, dl_end, dl_interval,
                   batches, dl_result, dl_log>>
    /\ UNCHANGED <<store, gdvars>>
    /\ UNCHANGED appvars

\* lines 398-404
DownloadReturn ==
    /\ dl_pc = "batch"
    /\ dl_sym > Len(dl_symbols)
    /\ dl_result' = IF dl_all_data = <<>> THEN <<>> ELSE Concat(dl_all_data)
    /\ dl_pc' = "returned"
    /\ UNCHANGED <<dl_caller, dl_symbols, dl_start, dl_end, dl_interval,
                   batches, dl_sym, batch_idx, symbol_data, dl_all_data, dl_log>>
    /\ UNCHANGED <<store, gdvars>>
    /\ UNCHANGED appvars

\* get_data lines 138-141 (and 123-126): what download returned is written
\* to the table, unless it is empty or the write raises
SaveDownloaded ==
    /\ dl_pc = "returned"
    /\ dl_caller = "get_data"
    /\ \E wr \in SaveOutcomes(dl_result) :
         IF wr = "error"
         THEN /\ dl_pc' = "save_error"
              /\ UNCHANGED store
         ELSE /\ dl_pc' = "saved"
              /\ store' = SaveToCache(store, dl_result, "binance", dl_interval)
    /\ UNCHANGED <<dl_caller, dl_symbols, dl_start, dl_end, dl_interval,
                   batches, dl_sym, batch_idx, symbol_data, dl_all_data,
                   dl_result, dl_log>>
    /\ UNCHANGED gdvars
    /\ UNCHANGED appvars

NextBinance ==
    \/ \E sym \in Symbols, start \in DownloadInstants, end \in DownloadInstants,
          iv \in Intervals :
           Download("get_data", <<sym>>, start, end, iv)
    \/ \E syms \in SymbolLists, start \in DownloadInstants,
          end \in DownloadInstants, iv \in Intervals :
           Download("direct", syms, start, end, iv)
    \/ ClientRaises
    \/ ClientReady
    \/ FetchBatch
    \/ CombineSymbol
    \/ DownloadReturn
    \/ SaveDownloaded

SpecBinance == InitBinance /\ [][NextBinance]_vars

----------------------------------------------------------------------------
(* DataManager: get_data, clear_cache and the queries on its snapshot.     *)
(* A frame of the manager is a sequence of rows [timestamp, symbol, val,   *)
(* columns]; columns is the set of feature columns the row carries.        *)

\* the symbol of the synthetic instrument that can be registered: a
\* WeightedCombinationGenerator({'X': 1.0}, 'X_W')
Synthetic == "X_W"
RequiredSymbols == {"X"}

\* FeatureCalculator.get_feature_names() of the registered calculators
FeatureNames == {"sma_20"}

\* the order of symbol strings
ManagerOrder == <<"X", "X_W", "Y">>
ManagerSymbols == {ManagerOrder[i] : i \in 1..Len(ManagerOrder)}
ManagerRank(sym) == CHOOSE i \in 1..Len(ManagerOrder) : ManagerOrder[i] = sym

ManagerKeyLeq(r1, r2) ==
    \/ r1.timestamp < r2.timestamp
    \/ r1.timestamp = r2.timestamp
         /\ ManagerRank(r1.symbol) <= ManagerRank(r2.symbol)

RECURSIVE ManagerInsertSorted(_, _)
ManagerInsertSorted(row, sorted) ==
    IF sorted = <<>> THEN <<row>>
    ELSE IF ManagerKeyLeq(Head(sorted), row)
         THEN <<Head(sorted)>> \o ManagerInsertSorted(row, Tail(sorted))
         ELSE <<row>> \o sorted

\* frame.sort_index() on the index (timestamp, symbol)
RECURSIVE ManagerSortIndex(_)
ManagerSortIndex(frame) ==
    IF frame = <<>> THEN <<>>
    ELSE ManagerInsertSorted(frame[Len(frame)],
                             ManagerSortIndex(SubSeq(frame, 1, Len(frame) - 1)))

\* the rows of a symbol, in the order of the frame
RECURSIVE SymbolRows(_, _)
SymbolRows(frame, sym) ==
    IF frame = <<>> THEN <<>>
    ELSE (IF Head(frame).symbol = sym THEN <<Head(frame)>> ELSE <<>>)
         \o SymbolRows(Tail(frame), sym)

\* index.get_level_values('symbol').unique(): in order of first appearance
RECURSIVE UniqueSymbols(_)
UniqueSymbols(frame) ==
    IF frame = <<>> THEN <<>>
    ELSE LET rest == UniqueSymbols(SubSeq(frame, 1, Len(frame) - 1))
             sym == frame[Len(frame)].symbol
         IN  IF \E k \in 1..Len(rest) : rest[k] = sym THEN rest
             ELSE Append(rest, sym)

\* the frame DataDownloader.get_data returned, as the manager holds it
DownloadedFrame(frame) ==
    [k \in 1..Len(frame) |->
        [timestamp |-> frame[k].timestamp, symbol |-> frame[k].symbol,
         val |-> frame[k].val, columns |-> {}]]

\* InstrumentGenerator.generate_instruments: nothing unless the generator
\* is registered and its required symbols are in the data; else one row of
\* the synthetic symbol per row of the required symbol
GenerateInstruments(data, gens) ==
    IF Synthetic \in gens
       /\ \A req \in RequiredSymbols :
            \E k \in 1..Len(data) : data[k].symbol = req
    THEN LET base == SymbolRows(data, "X")
         IN  ManagerSortIndex(
                 [k \in 1..Len(base) |->
                     [timestamp |-> base[k].timestamp, symbol |-> Synthetic,
                      val |-> base[k].val, columns |-> {}]])
    ELSE <<>>

\* the frames of the symbols one after another, each with the feature
\* columns added
RECURSIVE FeaturesBySymbol(_, _)
FeaturesBySymbol(data, syms) ==
    IF syms = <<>> THEN <<>>
    ELSE LET rows == SymbolRows(data, Head(syms))
         IN  [k \in 1..Len(rows) |->
                 [rows[k] EXCEPT !.columns = @ \cup FeatureNames]]
             \o FeaturesBySymbol(data, Tail(syms))

\* FeatureCalculator.calculate_features
CalculateFeatures(data) ==
    IF data = <<>> THEN data
    ELSE ManagerSortIndex(FeaturesBySymbol(data, UniqueSymbols(data)))

\* lines 75-83 of DataManager.get_data
ProcessData(data, gens, include_generated, include_features) ==
    LET generated == IF include_generated
                     THEN GenerateInstruments(data, gens) ELSE <<>>
        with_generated == IF generated # <<>> THEN data \o generated
                          ELSE data
    IN  IF include_features THEN CalculateFeatures(with_generated)
        ELSE with_generated

\* mutant of ManagerGetDataEnd: the empty frame is processed and kept too
ManagerGetDataEndUnchecked(downloaded, gens, include_generated, include_features, cache, valid) ==
    LET data == IF downloaded = <<>> THEN <<>>
                ELSE ProcessData(downloaded, gens, include_generated,
                                 include_features)
    IN  [data |-> data, cache |-> data, valid |-> TRUE]

\* lines 72-89 of DataManager.get_data: what the call returns and what it
\* leaves in _data_cache and _cache_valid
ManagerGetDataEnd(downloaded, gens, include_generated, include_features, cache, valid) ==
    IF downloaded = <<>>
    THEN [data |-> downloaded, cache |-> cache, valid |-> valid]
    ELSE LET data == ProcessData(downloaded, gens, include_generated,
                                 include_features)
         IN  [data |-> data, cache |-> data, valid |-> TRUE]

\* an optional datetime argument: <<>> is None, <<t>> is the instant t
NoDate == <<>>

\* DataManager.get_symbol_data: raised is the ValueError of line 109
GetSymbolData(cache, valid, sym, start, end) ==
    IF ~valid \/ cache = None
    THEN [raised |-> TRUE, rows |-> <<>>]
    ELSE LET of_symbol == SymbolRows(cache, sym)
             kept == {k \in 1..Len(of_symbol) :
                        /\ start # NoDate => of_symbol[k].timestamp >= start[1]
                        /\ end # NoDate => of_symbol[k].timestamp <= end[1]}
             F[n \in 0..Len(of_symbol)] ==
                 IF n = 0 THEN <<>>
                 ELSE IF n \in kept THEN Append(F[n - 1], of_symbol[n])
                      ELSE F[n - 1]
         IN  [raised |-> FALSE, rows |-> F[Len(of_symbol)]]

\* DataManager.get_available_symbols
GetAvailableSymbols(cache, valid) ==
    IF ~valid \/ cache = None THEN <<>> ELSE UniqueSymbols(cache)

\* DataManager.export_to_csv: raised is the ValueError of line 161, csv
\* the rows written
ExportToCsv(cache, valid) ==
    IF ~valid \/ cache = None
    THEN [raised |-> TRUE, csv |-> <<>>]
    ELSE [raised |-> FALSE, csv |-> cache]

\* dm.instrument_generator.register_generator(generator)
RegisterGenerator ==
    /\ pc = "idle"
    /\ Synthetic \notin generators
    /\ generators' = generators \cup {Synthetic}
    /\ UNCHANGED <<data_cache, cache_valid, last_data, mg_status>>
    /\ UNCHANGED <<store, gdvars, dlvars, bkvars, stvars>>

\* DataManager.get_data from line 72 on, once the downloader's get_data
\* ended (lines 64-70 are the actions of get_data above); an exception of
\* the downloader leaves the call at line 64.  include_generated and
\* include_features are arguments of the call, first read here.
ManagerGetDataReturn(include_generated, include_features) ==
    /\ pc = "done"
    /\ IF outcome = "returned"
       THEN LET r == ManagerGetDataEnd(DownloadedFrame(result), generators,
                                       include_generated, include_features,
                                       data_cache, cache_valid)
            IN  /\ data_cache' = r.cache
                /\ cache_valid' = r.valid
                /\ last_data' = IF r.data # <<>> THEN r.data ELSE last_data
                /\ mg_status' = IF r.data # <<>> THEN "data" ELSE "empty"
       ELSE /\ mg_status' = "raised"
            /\ UNCHANGED <<data_cache, cache_valid, last_data>>
    /\ pc' = "idle"
    /\ symbols' = <<>>
    /\ start_date' = 0
    /\ end_date' = 0
    /\ interval' = NoName
    /\ source' = NoName
    /\ idx' = 0
    /\ cached_data' = None
    /\ missing_ranges' = <<>>
    /\ gap_idx' = 0
    /\ all_data' = <<>>
    /\ result' = None
    /\ outcome' = "none"
    /\ log' = <<>>
    /\ UNCHANGED <<store, downloaders, use_cache, prev, generators>>
    /\ UNCHANGED <<dlvars, bkvars, stvars>>

\* mutant of ClearCache: the flag stays
ClearCacheKeepingFlag ==
    /\ pc = "idle"
    /\ data_cache' = None
    /\ last_data' = None
    /\ UNCHANGED <<cache_valid, generators, mg_status>>
    /\ UNCHANGED <<store, gdvars, dlvars, bkvars, stvars>>

\* DataManager.clear_cache
ClearCache ==
    /\ pc = "idle"
    /\ data_cache' = None
    /\ cache_valid' = FALSE
    /\ last_data' = None
    /\ UNCHANGED <<generators, mg_status>>
    /\ UNCHANGED <<store, gdvars, dlvars, bkvars, stvars>>

\* the calls of the manager: the symbol the synthetic instrument needs,
\* from the epoch to a whole second
ManagerLists == {<<"X">>}
ManagerStarts == {0}
ManagerInstants == {FromEpochSeconds(s) : s \in Seconds}

\* a DataManager on a new database file
InitManager == InitFresh

NextManager ==
    \/ \E src \in Sources : RegisterDownloader(src)
    \/ RegisterGenerator
    \/ \E syms \in ManagerLists, start \in ManagerStarts,
          end \in ManagerInstants, iv \in Intervals, src \in Sources :
           GetData(syms, start, end, iv, src)
    \/ ProcessSymbol
    \/ DownloadGap
    \/ DownloadFull
    \/ Return
    \/ \E include_generated \in BOOLEAN, include_features \in BOOLEAN :
           ManagerGetDataReturn(include_generated, include_features)
    \/ ClearCache

SpecManager == InitManager /\ [][NextManager]_vars

----------------------------------------------------------------------------
(* Book, Position and Trade.  A Book is [name, trades, positions,          *)
(* strategy_registry]; an Optional[str] is <<>> for None and <<s>> for s.  *)

MaxTrades == 2
MaxQuantity == 2

\* the members of enum TradeAction: name and value
TradeAction ==
    {[name |-> n, value |-> n] : n \in {"BUY", "SELL", "CLOSE", "SHORT", "COVER"}}

\* TradeAction[name]
TradeActionByName(name) == CHOOSE a \in TradeAction : a.name = name

EntryActions == {TradeActionByName("BUY"), TradeActionByName("SHORT")}
ExitActions ==
    {TradeActionByName("SELL"), TradeActionByName("CLOSE"),
     TradeActionByName("COVER")}

\* Trade(symbol, action, quantity, timestamp, price, strategy_id,
\* strategy_name) with the defaults of the other fields
Trade(sym, act, qty, t, name) ==
    [symbol |-> sym, action |-> act, quantity |-> qty, timestamp |-> t,
     price |-> 1, strategy_id |-> "two_candle_v1", strategy_name |-> name,
     fees |-> 0, order_type |-> "MARKET", signal_strength |-> <<>>,
     notes |-> <<>>, metadata |-> {}]

\* the trades handed to add_trade: every symbol, action and quantity, at
\* a whole second without a strategy name or inside a second with one
TradeArguments ==
    {Trade(sym, act, qty, FromEpochSeconds(1), <<>>) :
        sym \in Symbols, act \in TradeAction, qty \in 1..MaxQuantity}
    \cup
    {Trade(sym, act, qty, FromEpochSeconds(1) + 1, <<"Two Candle Strategy">>) :
        sym \in Symbols, act \in TradeAction, qty \in 1..MaxQuantity}

\* sum(trade.quantity for trade in trade_list)
RECURSIVE SumQuantity(_)
SumQuantity(trade_list) ==
    IF trade_list = <<>> THEN 0
    ELSE Head(trade_list).quantity + SumQuantity(Tail(trade_list))

\* Position(symbol)
NewPosition(sym) ==
    [symbol |-> sym, quantity |-> 0, entry_trades |-> <<>>,
     exit_trades |-> <<>>, is_open |-> FALSE]

\* Position.current_quantity
CurrentQuantity(position) ==
    SumQuantity(position.entry_trades) - SumQuantity(position.exit_trades)

\* Position.add_entry_trade
AddEntryTrade(position, trade) ==
    LET appended == [position EXCEPT !.entry_trades = Append(@, trade)]
        quantity == CurrentQuantity(appended)
    IN  [appended EXCEPT !.quantity = quantity, !.is_open = quantity > 0]

\* mutant of AddExitTrade: the trade is filed and the position not updated
AddExitTradeStale(position, trade) ==
    [position EXCEPT !.exit_trades = Append(@, trade)]

\* Position.add_exit_trade
AddExitTrade(position, trade) ==
    LET appended == [position EXCEPT !.exit_trades = Append(@, trade)]
        quantity == CurrentQuantity(appended)
    IN  [appended EXCEPT !.quantity = quantity, !.is_open = quantity > 0]

\* Book(name)
NewBook(name) ==
    [name |-> name, trades |-> <<>>, positions |-> {},
     strategy_registry |-> {}]

HasPosition(book_positions, sym) == \E p \in book_positions : p.symbol = sym

\* self._positions[symbol]
PositionOf(book_positions, sym) ==
    CHOOSE p \in book_positions : p.symbol = sym

\* Book.add_trade
BookAddTrade(book, trade) ==
    LET position == IF HasPosition(book.positions, trade.symbol)
                    THEN PositionOf(book.positions, trade.symbol)
                    ELSE NewPosition(trade.symbol)
        updated == IF trade.action \in EntryActions
                   THEN AddEntryTrade(position, trade)
                   ELSE IF trade.action \in ExitActions
                        THEN AddExitTrade(position, trade)
                        ELSE position
    IN  [book EXCEPT
           !.trades = Append(@, trade),
           !.positions = {p \in @ : p.symbol # trade.symbol} \cup {updated}]

\* Book.has_open_position
HasOpenPosition(book_positions, sym) ==
    IF ~HasPosition(book_positions, sym) THEN FALSE
    ELSE PositionOf(book_positions, sym).is_open

\* Book.get_total_trades
GetTotalTrades(book_trades) == Len(book_trades)

\* mutant of Isoformat: the text carries whole seconds only
IsoformatSeconds(t) == <<ToEpochSeconds(t)>>

\* datetime.isoformat(): the text of an instant has the seconds and, when
\* the instant is inside a second, the fraction
Isoformat(t) ==
    IF t % TicksPerSecond = 0 THEN <<ToEpochSeconds(t)>>
    ELSE <<ToEpochSeconds(t), t % TicksPerSecond>>

\* datetime.fromisoformat(text)
FromIsoformat(text) ==
    IF Len(text) = 1 THEN FromEpochSeconds(text[1])
    ELSE FromEpochSeconds(text[1]) + text[2]

\* Trade.to_dict
TradeToDict(trade) ==
    [trade EXCEPT !.action = trade.action.value,
                  !.timestamp = Isoformat(trade.timestamp)]

\* Trade.from_dict
TradeFromDict(data) ==
    [data EXCEPT !.timestamp = FromIsoformat(data.timestamp),
                 !.action = TradeActionByName(data.action)]

\* the dictionary Book.save hands to json.dump; the document json.load
\* reads back has the same strings, numbers, nulls, lists and objects
BookDocument(name, book_trades, registry) ==
    [name |-> name,
     trades |-> [k \in 1..Len(book_trades) |-> TradeToDict(book_trades[k])],
     strategy_registry |-> registry]

RECURSIVE AddTrades(_, _)
AddTrades(book, dicts) ==
    IF dicts = <<>> THEN book
    ELSE AddTrades(BookAddTrade(book, TradeFromDict(Head(dicts))), Tail(dicts))

\* Book.load
LoadBook(document) ==
    AddTrades([NewBook(document.name) EXCEPT
                 !.strategy_registry = document.strategy_registry],
              document.trades)

\* the Book of the state
TheBook ==
    [name |-> book_name, trades |-> trades, positions |-> positions,
     strategy_registry |-> strategy_registry]

\* Book(): BookIdle, beside a downloader that is not used
InitBook == InitFresh

\* Book.register_strategy
RegisterStrategy(strategy_id, strategy_name) ==
    /\ <<strategy_id, strategy_name>> \notin strategy_registry
    /\ strategy_registry' =
         {p \in strategy_registry : p[1] # strategy_id}
           \cup {<<strategy_id, strategy_name>>}
    /\ UNCHANGED <<book_name, trades, positions, add_calls, file, loaded>>
    /\ UNCHANGED <<store, gdvars, dlvars, mgvars, stvars>>

\* Book.add_trade(trade)
AddTrade(trade) ==
    /\ Len(trades) < MaxTrades
    /\ LET book == BookAddTrade(TheBook, trade)
       IN  /\ trades' = book.trades
           /\ positions' = book.positions
    /\ add_calls' = add_calls + 1
    /\ UNCHANGED <<book_name, strategy_registry, file, loaded>>
    /\ UNCHANGED <<store, gdvars, dlvars, mgvars, stvars>>

\* Book.save(filepath); the Book loaded from the file it overwrites is
\* no longer the Book of that file
Save ==
    /\ file' = <<BookDocument(book_name, trades, strategy_registry)>>
    /\ file' # file
    /\ loaded' = None
    /\ UNCHANGED <<book_name, trades, positions, strategy_registry,
                   add_calls>>
    /\ UNCHANGED <<store, gdvars, dlvars, mgvars, stvars>>

\* Book.load(filepath)
Load ==
    /\ file # None
    /\ loaded = None
    /\ loaded' = <<LoadBook(file[1])>>
    /\ UNCHANGED <<book_name, trades, positions, strategy_registry,
                   add_calls, file>>
    /\ UNCHANGED <<store, gdvars, dlvars, mgvars, stvars>>

NextBook ==
    \/ RegisterStrategy("two_candle_v1", "Two Candle Strategy")
    \/ \E trade \in TradeArguments : AddTrade(trade)
    \/ Save
    \/ Load

SpecBook == InitBook /\ [][NextBook]_vars

----------------------------------------------------------------------------
(* TwoCandleStrategy on the snapshot of a DataManager.  The val of a       *)
(* candle is [close, volume], the two columns the strategy reads.          *)

MaxLevel == 2

\* TwoCandleStrategy(position_size=1.0, min_volume=0.0)
position_size == 1
min_volume == 0

\* closes and volumes of a candle
Levels == 1..MaxLevel
CandleValues == [close : Levels, volume : Levels]
NoCandle == [close |-> 0, volume |-> 0]

\* the snapshot a get_data without generated instruments and features
\* leaves: the candles of X chosen by f, and a candle of Y at every
\* second if with_other, in the order of the index (timestamp, symbol)
RECURSIVE CandleFrameFrom(_, _, _)
CandleFrameFrom(f, with_other, sec) ==
    IF sec > MaxSec THEN <<>>
    ELSE (IF f[sec] # NoCandle
          THEN <<[timestamp |-> FromEpochSeconds(sec), symbol |-> "X",
                  val |-> f[sec], columns |-> {}]>>
          ELSE <<>>)
         \o (IF with_other
             THEN <<[timestamp |-> FromEpochSeconds(sec), symbol |-> "Y",
                     val |-> [close |-> 1, volume |-> 1], columns |-> {}]>>
             ELSE <<>>)
         \o CandleFrameFrom(f, with_other, sec + 1)

CandleFrames ==
    {CandleFrameFrom(f, with_other, 0) :
        f \in [Seconds -> CandleValues \cup {NoCandle}],
        with_other \in BOOLEAN} \ {<<>>}

\* an optional lookback_periods: <<>> is None, <<n>> is n
NoLookback == <<>>

\* mutant of GetAvailableData: only the filter of get_symbol_data, which
\* keeps the row at end_date
GetAvailableDataInclusive(cache, valid, sym, until, lookback_periods) ==
    LET got == GetSymbolData(cache, valid, sym, NoDate, <<until>>)
        n == Len(got.rows)
    IN  IF got.raised THEN got
        ELSE IF lookback_periods # NoLookback /\ n > lookback_periods[1]
             THEN [raised |-> FALSE,
                   rows |-> SubSeq(got.rows, n - lookback_periods[1] + 1, n)]
             ELSE got

\* TradingStrategy.get_available_data; raised is the ValueError of
\* get_symbol_data
GetAvailableData(cache, valid, sym, until, lookback_periods) ==
    LET got == GetSymbolData(cache, valid, sym, NoDate, <<until>>)
        Before(row) == row.timestamp < until
        data == SelectSeq(got.rows, Before)
        n == Len(data)
    IN  IF got.raised THEN got
        ELSE IF lookback_periods # NoLookback /\ n > lookback_periods[1]
             THEN [raised |-> FALSE,
                   rows |-> SubSeq(data, n - lookback_periods[1] + 1, n)]
             ELSE [raised |-> FALSE, rows |-> data]

\* _check_buy_signal
CheckBuySignal(previous, current) ==
    /\ current.val.close > previous.val.close
    /\ current.val.volume > previous.val.volume

\* _check_sell_signal
CheckSellSignal(previous, current) ==
    current.val.close < previous.val.close

\* |a - b|
AbsDiff(a, b) == IF a >= b THEN a - b ELSE b - a

\* _calculate_signal_strength, in thousandths
CalculateSignalStrength(previous, current) ==
    LET price_change_pct ==
            (1000 * AbsDiff(current.val.close, previous.val.close))
              \div previous.val.close
        volume_change_pct ==
            IF previous.val.volume > 0
            THEN (1000 * AbsDiff(current.val.volume, previous.val.volume))
                   \div previous.val.volume
            ELSE 0
        signal_strength ==
            (7 * Min({price_change_pct * 10, 1000})
               + 3 * Min({volume_change_pct, 1000})) \div 10
    IN  Min({Max({signal_strength, 0}), 1000})

\* the Trade of lines 96-106 and 112-122
SuggestedTrade(sym, name, time_period, previous, current) ==
    [Trade(sym, TradeActionByName(name), position_size, time_period,
           <<"Two Candle Strategy">>)
       EXCEPT !.price = current.val.close,
              !.signal_strength =
                  <<CalculateSignalStrength(previous, current)>>,
              !.notes = <<name>>]

\* TwoCandleStrategy.get_suggested_trades: raised is the ValueError of
\* get_symbol_data, data the frame of line 70, trades the list returned
GetSuggestedTrades(cache, valid, time_period, sym) ==
    LET got == GetAvailableData(cache, valid, sym, time_period, <<2>>)
        data == got.rows
    IN  IF got.raised
        THEN [raised |-> TRUE, data |-> <<>>, trades |-> <<>>]
        ELSE IF Len(data) < 2
        THEN [raised |-> FALSE, data |-> data, trades |-> <<>>]
        ELSE LET previous_candle == data[Len(data) - 1]
                 current_candle == data[Len(data)]
             IN  IF current_candle.val.volume < min_volume
                 THEN [raised |-> FALSE, data |-> data, trades |-> <<>>]
                 ELSE IF CheckBuySignal(previous_candle, current_candle)
                 THEN [raised |-> FALSE, data |-> data,
                       trades |-> <<SuggestedTrade(sym, "BUY", time_period,
                                      previous_candle, current_candle)>>]
                 ELSE IF CheckSellSignal(previous_candle, current_candle)
                 THEN [raised |-> FALSE, data |-> data,
                       trades |-> <<SuggestedTrade(sym, "SELL", time_period,
                                      previous_candle, current_candle)>>]
                 ELSE [raised |-> FALSE, data |-> data, trades |-> <<>>]

\* a strategy on a DataManager that loaded candles or loaded nothing,
\* beside an empty Book
InitStrategy ==
    /\ store = InitDatabase({})
    /\ downloaders = {}
    /\ use_cache = FALSE
    /\ pc = "idle"
    /\ symbols = <<>>
    /\ start_date = 0
    /\ end_date = 0
    /\ interval = NoName
    /\ source = NoName
    /\ idx = 0
    /\ cached_data = None
    /\ missing_ranges = <<>>
    /\ gap_idx = 0
    /\ all_data = <<>>
    /\ result = None
    /\ outcome = "none"
    /\ log = <<>>
    /\ prev = <<>>
    /\ DownloadIdle
    /\ \/ /\ data_cache \in CandleFrames
          /\ cache_valid = TRUE
          /\ last_data = data_cache
          /\ mg_status = "data"
       \/ /\ data_cache = None
          /\ cache_valid = FALSE
          /\ last_data = None
          /\ mg_status = "empty"
    /\ generators = {}
    /\ BookIdle
    /\ StrategyIdle

\* strategy.get_suggested_trades(time_period, symbol)
SuggestTrades(time_period, sym) ==
    /\ LET r == GetSuggestedTrades(data_cache, cache_valid, time_period, sym)
       IN  /\ suggested' = <<[raised |-> r.raised, trades |-> r.trades]>>
           /\ available' = r.data
    /\ st_time' = time_period
    /\ st_symbol' = sym
    /\ UNCHANGED <<store, gdvars, dlvars, mgvars, bkvars>>

\* the caller books the suggested trade: book.add_trade(trade)
BookSuggested ==
    /\ suggested # None
    /\ suggested[1].trades # <<>>
    /\ Len(trades) < MaxTrades
    /\ LET book == BookAddTrade(TheBook, suggested[1].trades[1])
       IN  /\ trades' = book.trades
           /\ positions' = book.positions
    /\ add_calls' = add_calls + 1
    /\ suggested' = None
    /\ available' = None
    /\ st_time' = 0
    /\ st_symbol' = NoName
    /\ UNCHANGED <<book_name, strategy_registry, file, loaded>>
    /\ UNCHANGED <<store, gdvars, dlvars, mgvars>>

NextStrategy ==
    \/ \E time_period \in Instants, sym \in Symbols :
           SuggestTrades(time_period, sym)
    \/ BookSuggested

SpecStrategy == InitStrategy /\ [][NextStrategy]_vars

----------------------------------------------------------------------------
(* Vocabulary of the properties *)

Returned == pc = "done" /\ outcome = "returned"

LogEvents(op) == {i \in 1..Len(log) : log[i].op = op}

\* the events of kind op logged by the pass over position p of symbols
EventsAt(op, p) == {i \in LogEvents(op) : log[i].pos = p}

RowsOf(frame, sym) == SelectSeq(frame, LAMBDA r : r.symbol = sym)

FirstCached(q) == Min(Timestamps(q.rows))
LastCached(q) == Max(Timestamps(q.rows))

\* the epoch seconds of the symbol's records of (interval, source) in a store
StoredSeconds(st, sym) ==
    {r.timestamp : r \in {x \in st : /\ x.symbol = sym
                                     /\ x.interval = interval
                                     /\ x.source = source}}

\* the rows some download of the call returned
DownloadedRows ==
    UNION {{log[i].resp.rows[k] : k \in 1..Len(log[i].resp.rows)} :
              i \in LogEvents("download")}

----------------------------------------------------------------------------
(* C1: when a downloaded row and a cached row of the call carry the same   *)
(* (timestamp, symbol) key with different values, the row get_data returns *)
(* for that key is a downloaded one.                                       *)
C1_NewDataWins ==
    Returned =>
      \A i \in LogEvents("query") :
        log[i].hit =>
          \A c \in 1..Len(log[i].rows) :
            LET cached == log[i].rows[c]
                fresh == {n \in DownloadedRows : Key(n) = Key(cached)}
            IN  (\E n \in fresh : n.val # cached.val) =>
                  \A r \in 1..Len(result) :
                    Key(result[r]) = Key(cached) =>
                      result[r].val \in {n.val : n \in fresh}

(* C2: the returned frame holds at most one row per (timestamp, symbol)    *)
(* key, every key of the collected frames is in it, and the row kept for a *)
(* key is its last occurrence in concatenation order.                      *)
C2_NoDuplicatesKeepLast ==
    Returned =>
      LET cat == Concat(all_data)
      IN  /\ \A i, j \in 1..Len(result) :
                Key(result[i]) = Key(result[j]) => i = j
          /\ \A i \in 1..Len(result) :
                \E k \in 1..Len(cat) :
                    /\ cat[k] = result[i]
                    /\ \A m \in (k + 1)..Len(cat) : Key(cat[m]) # Key(cat[k])
          /\ \A k \in 1..Len(cat) :
                \E i \in 1..Len(result) : Key(result[i]) = Key(cat[k])

\* a symbol listed twice, and two collected rows of one key that differ
C2_Witness ==
    /\ Returned
    /\ Len(symbols) = 2
    /\ symbols[1] = symbols[2]
    /\ LET cat == Concat(all_data)
       IN  \E k, m \in 1..Len(cat) :
               k < m /\ Key(cat[k]) = Key(cat[m]) /\ cat[k].val # cat[m].val

(* C3: in the returned frame the rows of any one symbol are in             *)
(* non-decreasing timestamp order.                                         *)
C3_Chronological ==
    Returned =>
      \A i, j \in 1..Len(result) :
        (i < j /\ result[i].symbol = result[j].symbol) =>
          result[i].timestamp <= result[j].timestamp

\* the frames were collected out of order: a later row of a symbol is older
C3_Witness ==
    /\ Returned
    /\ Len(result) >= 2
    /\ LET cat == Concat(all_data)
       IN  \E k, m \in 1..Len(cat) :
               /\ k < m
               /\ cat[k].symbol = cat[m].symbol
               /\ cat[k].timestamp > cat[m].timestamp

(* C4: with caching on, when a call is repeated with the same arguments    *)
(* and the first call left, for every listed symbol, cached rows whose     *)
(* earliest timestamp is start and whose latest is end, the second call    *)
(* downloads nothing and returns the rows the first call returned.         *)
C4_Idempotent ==
    (prev # <<>> /\ Returned /\ use_cache) =>
      ((\A i \in LogEvents("query") :
            /\ log[i].hit
            /\ FirstCached(log[i]) = start_date
            /\ LastCached(log[i]) = end_date)
       => /\ LogEvents("download") = {}
          /\ result = prev[1].result)

(* C5: with caching on, a pass in which the gap detector reports no gap    *)
(* downloads nothing and writes nothing, and the rows of that symbol in    *)
(* the returned frame are exactly the rows the Store query returned.       *)
C5_CacheHit ==
    \A i \in LogEvents("query") :
      (log[i].hit /\ log[i].ranges = <<>>) =>
        /\ EventsAt("download", log[i].pos) = {}
        /\ EventsAt("save", log[i].pos) = {}
        /\ Returned => RowsOf(result, log[i].symbol) = log[i].rows

\* a returned call with a pass that found its cache complete
C5_Witness ==
    /\ Returned
    /\ \E i \in LogEvents("query") :
         log[i].hit /\ log[i].ranges = <<>> /\ Len(log[i].rows) >= 2

(* C6: on non-empty cached data the gap detector returns the leading gap   *)
(* (start, earliest cached) exactly when start < earliest cached, the      *)
(* trailing gap (latest cached, end) exactly when end > latest cached, the *)
(* leading one first, and nothing else.                                    *)
C6_GapDetector ==
    \A i \in LogEvents("query") :
      log[i].hit =>
        LET q == log[i]
            leading == <<start_date, FirstCached(q)>>
            trailing == <<LastCached(q), end_date>>
            hasLeading == start_date < FirstCached(q)
            hasTrailing == end_date > LastCached(q)
        IN  q.ranges = (IF hasLeading THEN <<leading>> ELSE <<>>)
                       \o (IF hasTrailing THEN <<trailing>> ELSE <<>>)

\* a pass that found both gaps
C6_Witness ==
    \E i \in LogEvents("query") : log[i].hit /\ Len(log[i].ranges) = 2

\* the Store holds data for [t2, t4] only and the request is [t1, t5]
\* with t1 < t2 < t4 < t5
GapCoverageCase(q) ==
    /\ q.hit
    /\ StoredSeconds(q.store, q.symbol) = {ToEpochSeconds(t) : t \in Timestamps(q.rows)}
    /\ start_date < FirstCached(q)
    /\ FirstCached(q) < LastCached(q)
    /\ LastCached(q) < end_date

(* C7: in that case the detector reports exactly two gaps and neither      *)
(* reaches a cached timestamp: no second that is already cached is among   *)
(* the seconds requested from the backend.                                 *)
C7_GapsExcludeCached ==
    \A i \in LogEvents("query") :
      GapCoverageCase(log[i]) =>
        /\ Len(log[i].ranges) = 2
        /\ \A g \in 1..Len(log[i].ranges) :
             DownloadSeconds(log[i].ranges[g][1], log[i].ranges[g][2])
               \cap StoredSeconds(log[i].store, log[i].symbol) = {}

(* C8: when the window lies within [earliest cached, latest cached] the    *)
(* detector reports no gap and the pass downloads nothing, also when       *)
(* seconds between the two extremes are missing; the returned frame then   *)
(* has no row of the symbol at a timestamp that is not cached.             *)
C8_InteriorHolesIgnored ==
    \A i \in LogEvents("query") :
      (/\ log[i].hit
       /\ FirstCached(log[i]) <= start_date
       /\ end_date <= LastCached(log[i])) =>
        /\ log[i].ranges = <<>>
        /\ EventsAt("download", log[i].pos) = {}
        /\ Returned =>
             Timestamps(RowsOf(result, log[i].symbol)) = Timestamps(log[i].rows)

\* a returned call whose window is covered by the extremes, with a second
\* missing between them
C8_Witness ==
    /\ Returned
    /\ \E i \in LogEvents("query") :
         /\ log[i].hit
         /\ FirstCached(log[i]) <= start_date
         /\ end_date <= LastCached(log[i])
         /\ \E s \in Seconds :
              /\ FirstCached(log[i]) < FromEpochSeconds(s)
              /\ FromEpochSeconds(s) < LastCached(log[i])
              /\ FromEpochSeconds(s) \notin Timestamps(log[i].rows)

\* the pass over position p is over
PassOver(p) == idx > p \/ pc = "done"

(* C9: a pass that starts while the Store holds no record of the symbol    *)
(* (for the interval and source) inside the requested window downloads     *)
(* exactly once, the original start and end.                               *)
C9_WholeWindowWhenNothingCached ==
    \A i \in LogEvents("query") :
      (/\ PassOver(log[i].pos)
       /\ \A s \in StoredSeconds(log[i].store, log[i].symbol) :
            ~(start_date <= FromEpochSeconds(s) /\ FromEpochSeconds(s) <= end_date))
      => /\ Cardinality(EventsAt("download", log[i].pos)) = 1
         /\ \A d \in EventsAt("download", log[i].pos) :
              log[d].from = start_date /\ log[d].to = end_date

(* C10: a download that raises does not make get_data raise: the call      *)
(* still returns.                                                          *)
C10_DownloadFailureSkipped ==
    (pc = "done" /\ \E d \in LogEvents("download") : log[d].resp.raised)
      => outcome = "returned"

----------------------------------------------------------------------------
(* Vocabulary of the properties of download and of the Store *)

\* download is over and returned a frame
DownloadReturned == dl_pc \in {"returned", "saved", "save_error"}

FetchEvents == 1..Len(dl_log)

RowSet(frame) == {frame[k] : k \in 1..Len(frame)}

Keys(frame) == {Key(frame[k]) : k \in 1..Len(frame)}

\* the query of the pass over position p
QueryAt(p) == log[CHOOSE i \in EventsAt("query", p) : TRUE]

\* the key under which _save_to_cache writes a row of the call
StoreKey(row) == <<row.symbol, ToEpochSeconds(row.timestamp), interval, source>>

RecordKey(rec) == <<rec.symbol, rec.timestamp, rec.interval, rec.source>>

\* the successful writes of the call that carry a row of the key
SavesOf(key) ==
    {s \in LogEvents("save") : \E r \in RowSet(log[s].rows) : StoreKey(r) = key}

(* C11: download raises for no fetch; when it returns, every batch of      *)
(* every listed symbol was fetched, whatever the other fetches did, and    *)
(* every candle a successful fetch returned is in the returned frame, as   *)
(* that very row unless a later batch of the same symbol returned the same *)
(* candle again.                                                           *)
C11_PartialFailureResilience ==
    /\ dl_pc = "raised" => dl_log = <<>>
    /\ DownloadReturned =>
         /\ \A p \in 1..Len(dl_symbols), b \in 1..Len(batches) :
              \E i \in FetchEvents : dl_log[i].pos = p /\ dl_log[i].batch = b
         /\ \A i \in FetchEvents :
              \A r \in RowSet(dl_log[i].resp.rows) :
                /\ Key(r) \in Keys(dl_result)
                /\ (\A j \in FetchEvents :
                       (j > i /\ dl_log[j].pos = dl_log[i].pos) =>
                          Key(r) \notin Keys(dl_log[j].resp.rows))
                     => r \in RowSet(dl_result)

\* a fetch raised, another returned nothing, and a later fetch of the same
\* symbol and a fetch of the next symbol succeeded
C11_Witness ==
    /\ DownloadReturned
    /\ Len(dl_symbols) = 2
    /\ \E i, j, k, m \in FetchEvents :
         /\ dl_log[i].resp.raised
         /\ dl_log[i].pos = 1
         /\ j > i /\ dl_log[j].pos = 1 /\ dl_log[j].resp.rows # <<>>
         /\ dl_log[k].pos = 2 /\ dl_log[k].resp.rows # <<>>
         /\ ~dl_log[m].resp.raised /\ dl_log[m].resp.rows = <<>>

(* C12: a get_data call in which a write to the Store failed does not      *)
(* raise: it ends by returning a frame.                                    *)
C12_WriteFailureTolerated ==
    (pc = "done" /\ LogEvents("save_error") # {}) => outcome = "returned"

(* C13: a get_data call naming a source with no registered downloader ends *)
(* at once with an error: no Store query, no download, no write, no        *)
(* result, and the Store and the registry are as they were.                *)
C13_UnregisteredSourceRejected ==
    [][(pc = "idle" /\ pc' # "idle" /\ source' \notin downloaders) =>
          /\ pc' = "done"
          /\ outcome' = "ValueError"
          /\ log' = <<>>
          /\ result' = None
          /\ store' = store
          /\ downloaders' = downloaders]_vars

\* such a call, on a list of symbols and a window that would have had work
\* to do, with records in the Store
C13_Witness ==
    /\ pc = "done"
    /\ outcome = "ValueError"
    /\ Len(symbols) = 2
    /\ start_date < end_date
    /\ store # {}

(* C14: when get_data's download issues a fetch, every row that an earlier *)
(* fetch of the same call returned is already in the Store.                *)
C14_BatchUpsertedBeforeNextFetch ==
    dl_caller = "get_data" =>
      \A i, j \in FetchEvents :
        i < j =>
          \A r \in RowSet(dl_log[i].resp.rows) :
            \E rec \in dl_log[j].store :
              /\ rec.symbol = r.symbol
              /\ rec.timestamp = ToEpochSeconds(r.timestamp)

(* C15: when get_data returns its result, every row a download of the call *)
(* returned has been written: the write follows its download at once, and  *)
(* the Store holds a record of the row's key with a value downloaded for   *)
(* that key in the call.                                                   *)
C15_WritesBeforeResult ==
    Returned =>
      \A d \in LogEvents("download") :
        log[d].resp.rows # <<>> =>
          /\ d < Len(log)
          /\ log[d + 1].op = "save"
          /\ log[d + 1].rows = log[d].resp.rows
          /\ \A r \in RowSet(log[d].resp.rows) :
               \E rec \in store :
                 /\ RecordKey(rec) = StoreKey(r)
                 /\ rec.val \in {n.val : n \in {x \in DownloadedRows : Key(x) = Key(r)}}

\* a returned call with two downloads that brought rows
C15_Witness ==
    /\ Returned
    /\ \E d1, d2 \in LogEvents("download") :
         d1 < d2 /\ log[d1].resp.rows # <<>> /\ log[d2].resp.rows # <<>>

(* C16: a gap download that returns an empty frame is followed by no       *)
(* write; if it was the first of two gaps, the second gap is downloaded    *)
(* next; if it was the last, the pass goes on to the next symbol; and when *)
(* the call returns, every listed symbol was queried and the keys of the   *)
(* symbol's cached rows are in the result.                                 *)
C16_EmptyGapTolerated ==
    \A d \in LogEvents("download") :
      (/\ ~log[d].resp.raised
       /\ log[d].resp.rows = <<>>
       /\ QueryAt(log[d].pos).hit) =>
        LET e == log[d]
            q == QueryAt(e.pos)
            last == q.ranges[Len(q.ranges)]
        IN  /\ d < Len(log) => log[d + 1].op \notin {"save", "save_error"}
            /\ <<e.from, e.to>> # last =>
                 \/ pc = "gap" /\ idx = e.pos /\ gap_idx = 2 /\ d = Len(log)
                 \/ /\ d < Len(log)
                    /\ log[d + 1].op = "download"
                    /\ log[d + 1].pos = e.pos
                    /\ <<log[d + 1].from, log[d + 1].to>> = last
            /\ <<e.from, e.to>> = last => idx > e.pos
            /\ Returned =>
                 /\ \A p \in 1..Len(symbols) : EventsAt("query", p) # {}
                 /\ Keys(q.rows) \subseteq Keys(result)

\* a returned call on two symbols whose first pass had two gaps: the first
\* gap came back empty, the second brought rows
C16_Witness ==
    /\ Returned
    /\ Len(symbols) = 2
    /\ \E d \in EventsAt("download", 1) :
         /\ QueryAt(1).hit
         /\ Len(QueryAt(1).ranges) = 2
         /\ ~log[d].resp.raised
         /\ log[d].resp.rows = <<>>
         /\ <<log[d].from, log[d].to>> = QueryAt(1).ranges[1]
         /\ log[d + 1].op = "download"
         /\ log[d + 1].resp.rows # <<>>

(* C17: for a window with start < end the planner returns at least one     *)
(* sub-window; the first begins at start, the last ends at end, each       *)
(* begins where the one before ends, each spans more than nothing and at   *)
(* most MAX_CANDLES_PER_REQUEST - 1 interval steps; and a window of 250    *)
(* hours at the 1-hour interval gives exactly 3 sub-windows.               *)
C17_BatchesPartitionWindow ==
    (dl_pc = "planned" /\ dl_start < dl_end) =>
      LET n == Len(batches)
          step == GetIntervalDelta(dl_interval)
      IN  /\ n >= 1
          /\ batches[1][1] = dl_start
          /\ batches[n][2] = dl_end
          /\ \A i \in 1..(n - 1) : batches[i][2] = batches[i + 1][1]
          /\ \A i \in 1..n :
               /\ batches[i][1] < batches[i][2]
               /\ batches[i][2] - batches[i][1]
                    <= (MAX_CANDLES_PER_REQUEST - 1) * step
          /\ (dl_interval = "1h" /\ dl_end - dl_start = 250 * OneHour) => n = 3

\* the 250-hour window at the 1-hour interval, planned
C17_Witness ==
    /\ dl_pc = "planned"
    /\ dl_interval = "1h"
    /\ dl_end - dl_start = 250 * OneHour
    /\ Len(batches) = 3

(* C18: for a label outside the planner's table the interval step is one   *)
(* hour and the sub-windows are those of the label '1h'.                   *)
C18_UnknownLabelIsOneHour ==
    (dl_pc = "planned" /\ dl_interval \notin DOMAIN interval_map) =>
      /\ GetIntervalDelta(dl_interval) = OneHour
      /\ batches = CreateBatches(dl_start, dl_end, "1h")

\* a window of several sub-windows planned for a label outside the table
C18_Witness ==
    /\ dl_pc = "planned"
    /\ dl_interval \in UnknownLabels
    /\ Len(batches) = 3

(* C19: the Store holds at most one record per (symbol, timestamp,         *)
(* interval, source); a key written in the call has a record, and it       *)
(* carries the value of the last write of the call to that key; writing an *)
(* empty frame leaves the Store as it is.                                  *)
C19_StoreUpsert ==
    /\ \A r1, r2 \in store : SameKey(r1, r2) => r1 = r2
    /\ \A s \in LogEvents("save") :
         \A r \in RowSet(log[s].rows) :
           LET lastSave == Max(SavesOf(StoreKey(r)))
           IN  \E rec \in store :
                 /\ RecordKey(rec) = StoreKey(r)
                 /\ \E w \in RowSet(log[lastSave].rows) :
                      StoreKey(w) = StoreKey(r) /\ w.val = rec.val
    /\ \A iv \in Intervals, src \in Sources : SaveToCache(store, <<>>, src, iv) = store

\* one key written twice in a call, with two values
C19_Witness ==
    \E s1, s2 \in LogEvents("save") :
      /\ s1 < s2
      /\ \E r1 \in RowSet(log[s1].rows), r2 \in RowSet(log[s2].rows) :
           StoreKey(r1) = StoreKey(r2) /\ r1.val # r2.val

(* C20: the Store query of a pass returns exactly the records of the       *)
(* symbol, interval and source whose timestamp t satisfies                 *)
(* start <= t <= end, in strictly ascending timestamp order.               *)
C20_QueryReturnsWindow ==
    \A i \in LogEvents("query") :
      LET q == log[i]
          rows == IF q.rows = None THEN <<>> ELSE q.rows
          inWindow == {r \in q.store :
                         /\ r.symbol = q.symbol
                         /\ r.interval = interval
                         /\ r.source = source
                         /\ start_date <= FromEpochSeconds(r.timestamp)
                         /\ FromEpochSeconds(r.timestamp) <= end_date}
      IN  /\ RowSet(rows) = {[timestamp |-> FromEpochSeconds(r.timestamp),
                              symbol |-> r.symbol, val |-> r.val] : r \in inWindow}
          /\ \A k \in 1..(Len(rows) - 1) : rows[k].timestamp < rows[k + 1].timestamp

(* C21: no step removes a key from the Store, and a record that a step     *)
(* changes is replaced by a write of that step to the same key, whose      *)
(* value the new record carries.                                           *)
C21_NoRecordRemoved ==
    [][/\ \A r \in store : \E r2 \in store' : SameKey(r, r2)
       /\ \A r \in store :
            r \notin store' =>
              \E s \in (Len(log) + 1)..Len(log') :
                /\ log'[s].op = "save"
                /\ \E w \in RowSet(log'[s].rows) :
                     /\ StoreKey(w) = RecordKey(r)
                     /\ \E r2 \in store' : SameKey(r, r2) /\ r2.val = w.val]_vars

\* a record the call found in the Store now carries another value, and
\* the Store holds other records besides
C21_Witness ==
    /\ Cardinality(store) >= 2
    /\ \E i \in LogEvents("query") :
         \E old \in log[i].store : \E new \in store :
           SameKey(old, new) /\ old.val # new.val

(* C22: the downloads of a call are issued in the order of the list: a     *)
(* later download is for the same position or a later one, each download   *)
(* names the one symbol of its position, and two downloads for the same    *)
(* position are the leading gap (from start) and then the trailing gap (to *)
(* end).                                                                   *)
C22_DownloadsInOrder ==
    /\ \A d \in LogEvents("download") : log[d].symbol = symbols[log[d].pos]
    /\ \A d1, d2 \in LogEvents("download") :
         d1 < d2 =>
           /\ log[d1].pos <= log[d2].pos
           /\ log[d1].pos = log[d2].pos =>
                LET q == QueryAt(log[d1].pos)
                IN  /\ q.hit
                    /\ Len(q.ranges) = 2
                    /\ <<log[d1].from, log[d1].to>> = q.ranges[1]
                    /\ <<log[d2].from, log[d2].to>> = q.ranges[2]
                    /\ log[d1].from = start_date
                    /\ log[d1].to = FirstCached(q)
                    /\ log[d2].from = LastCached(q)
                    /\ log[d2].to = end_date

\* a returned call on two symbols: both gaps downloaded for the first, a
\* download for the second
C22_Witness ==
    /\ Returned
    /\ Len(symbols) = 2
    /\ Cardinality(EventsAt("download", 1)) = 2
    /\ EventsAt("download", 2) # {}

\* the rows the first call's only download returned
FirstFetched == prev[1].log[2].resp.rows

\* the scenario: the Store was empty, the first call asked for one symbol
\* over [d1, d3] and its download returned two rows, at d1 and at a d2
\* before d3
PartialFetchScenario ==
    /\ prev # <<>>
    /\ use_cache
    /\ Len(symbols) = 1
    /\ Len(prev[1].log) = 3
    /\ prev[1].log[1].op = "query"
    /\ prev[1].log[1].store = {}
    /\ prev[1].log[2].op = "download"
    /\ prev[1].log[3].op = "save"
    /\ Len(FirstFetched) = 2
    /\ FirstFetched[1].timestamp = start_date
    /\ FirstFetched[1].timestamp < FirstFetched[2].timestamp
    /\ FirstFetched[2].timestamp < end_date

\* the backend answers the repeated call from the same data: asked for a
\* range, it returns the rows of the first answer that lie in it
SameBackendData ==
    \A d \in LogEvents("download") :
      /\ ~log[d].resp.raised
      /\ RowSet(log[d].resp.rows) =
           {r \in RowSet(FirstFetched) :
              ToEpochSeconds(r.timestamp) \in DownloadSeconds(log[d].from, log[d].to)}

(* C23: in that scenario the first call returned exactly the two rows and  *)
(* both are in the Store; the repeated call finds them, detects the one    *)
(* trailing gap from d2 to d3, downloads it, receives an empty frame and   *)
(* returns exactly the two rows again.                                     *)
C23_PartialFetchRepeated ==
    (PartialFetchScenario /\ Returned /\ SameBackendData) =>
      /\ prev[1].result = FirstFetched
      /\ log[1].rows = FirstFetched
      /\ log[1].ranges = << <<FirstFetched[2].timestamp, end_date>> >>
      /\ Cardinality(LogEvents("download")) = 1
      /\ \A d \in LogEvents("download") :
           /\ log[d].from = FirstFetched[2].timestamp
           /\ log[d].to = end_date
           /\ log[d].resp.rows = <<>>
      /\ result = FirstFetched

(* C24: a call whose window has start = end or start > end returns an      *)
(* empty frame.                                                            *)
C24_DegenerateWindowEmpty ==
    (Returned /\ start_date >= end_date) => result = <<>>

\* the Store a call found when it began
StoreAtCall == log[1].store

\* no pass of the call yielded a row: every Store query of the window came
\* back empty and every download returned an empty frame
NoSymbolYieldedRows ==
    /\ \A i \in LogEvents("query") : log[i].rows = None
    /\ \A d \in LogEvents("download") :
         ~log[d].resp.raised /\ log[d].resp.rows = <<>>

(* C25: a call with a registered source in which no symbol yielded a row   *)
(* ends by returning an empty frame, not by raising, and the Store is as   *)
(* the call found it.                                                      *)
C25_NoDataEmptyResult ==
    (pc = "done" /\ outcome # "ValueError" /\ NoSymbolYieldedRows) =>
      /\ outcome = "returned"
      /\ result = <<>>
      /\ log # <<>> => store = StoreAtCall

\* such a call on two symbols, with downloads, on a Store that holds
\* records outside the window
C25_Witness ==
    /\ Returned
    /\ NoSymbolYieldedRows
    /\ Len(symbols) = 2
    /\ Cardinality(LogEvents("download")) = 2
    /\ store # {}

(* C27: every row of a returned frame has its record in the Store: same    *)
(* symbol, timestamp, interval and source, and the same value.             *)
C27_ResultAgreesWithStore ==
    Returned =>
      \A r \in RowSet(result) :
        \E rec \in store : RecordKey(rec) = StoreKey(r) /\ rec.val = r.val

(* C28: with use_cache off no pass runs the gap detector; every pass that  *)
(* is over downloaded exactly once, the whole requested window; every      *)
(* non-empty download was written to the Store; and a returned frame holds *)
(* downloaded rows only.                                                   *)
C28_CacheOffAlwaysDownloads ==
    ~use_cache =>
      /\ \A i \in LogEvents("query") :
           /\ ~log[i].hit
           /\ log[i].ranges = <<>>
           /\ PassOver(log[i].pos) =>
                /\ Cardinality(EventsAt("download", log[i].pos)) = 1
                /\ \A d \in EventsAt("download", log[i].pos) :
                     log[d].from = start_date /\ log[d].to = end_date
      /\ \A d \in LogEvents("download") :
           (log[d].resp.rows # <<>> /\ (pc # "done" \/ outcome = "returned")) =>
             /\ log[d + 1].op = "save"
             /\ \A r \in RowSet(log[d].resp.rows) :
                  \E rec \in store : RecordKey(rec) = StoreKey(r)
      /\ Returned =>
           /\ RowSet(result) \subseteq DownloadedRows
           /\ \A p \in 1..Len(symbols) :
                Cardinality(EventsAt("download", p)) = 1

\* a returned call with use_cache off whose Store held a record of the
\* window that the result does not show
C28_Witness ==
    /\ ~use_cache
    /\ Returned
    /\ Len(symbols) = 2
    /\ result # <<>>
    /\ \E i \in LogEvents("query") :
         /\ log[i].rows # None
         /\ \E c \in RowSet(log[i].rows) : Key(c) \notin Keys(result)

\* the Store after the first n events of the call: what the call found,
\* with the frames of its successful writes put in, in order
RECURSIVE SavedUpTo(_)
SavedUpTo(n) ==
    IF n = 0 THEN StoreAtCall
    ELSE IF log[n].op = "save"
         THEN SaveToCache(SavedUpTo(n - 1), log[n].rows, source, interval)
         ELSE SavedUpTo(n - 1)

(* C29: the Store holds what the call found plus the frames of the writes  *)
(* that succeeded, nothing else: a write that failed left no row of its    *)
(* frame behind and left the earlier frames of the call in place.          *)
C29_SaveAllOrNothing ==
    log # <<>> => store = SavedUpTo(Len(log))

\* a write of a frame of two rows failed after an earlier frame of the
\* call was written
C29_Witness ==
    /\ log # <<>>
    /\ log[Len(log)].op = "save_error"
    /\ Len(log[Len(log)].rows) >= 2
    /\ LogEvents("save") # {}

\* the records of the window that the Store of the first instance holds
\* for the symbol of a query, as the query selects them
RecordsBeforeRestart(q) ==
    {r \in prev[1].store : /\ r.symbol = q.symbol
                           /\ r.interval = interval
                           /\ r.source = source
                           /\ ToEpochSeconds(start_date) <= r.timestamp
                           /\ r.timestamp <= ToEpochSeconds(end_date)}

(* C26: a new DataDownloader on the database of an earlier one finds every *)
(* record as that one left it, and the first pass of its first call        *)
(* queries and detects gaps on those records: its cached rows are the      *)
(* earlier instance's records of the window and its gaps are the ones      *)
(* their earliest and latest timestamps give.                              *)
C26_RestartKeepsRecords ==
    prev # <<>> =>
      /\ log = <<>> => store = prev[1].store
      /\ log # <<>> =>
           LET q == log[1]
               recs == RecordsBeforeRestart(q)
               stamps == {FromEpochSeconds(r.timestamp) : r \in recs}
           IN  /\ q.store = prev[1].store
               /\ recs = {} <=> q.rows = None
               /\ recs # {} =>
                    /\ Timestamps(q.rows) = stamps
                    /\ \A c \in RowSet(q.rows) :
                         \E r \in recs : /\ FromEpochSeconds(r.timestamp) = c.timestamp
                                          /\ r.val = c.val
                    /\ q.hit = use_cache
                    /\ use_cache =>
                         q.ranges =
                           (IF start_date < Min(stamps)
                            THEN << <<start_date, Min(stamps)>> >> ELSE <<>>)
                           \o (IF end_date > Max(stamps)
                               THEN << <<Max(stamps), end_date>> >> ELSE <<>>)

\* after a restart, a returned call that downloaded nothing: the records
\* of the earlier instance covered its window
C26_Witness ==
    /\ prev # <<>>
    /\ Returned
    /\ use_cache
    /\ Len(result) >= 2
    /\ LogEvents("download") = {}

\* the records of a Store that are not of the call's interval and source
OtherLabelled(st) == {r \in st : r.interval # interval \/ r.source # source}

(* C30: the cached rows of a pass are records of the call's interval and   *)
(* source; the records of every other interval or source are in the Store  *)
(* as the call found them; and every record the call created or replaced   *)
(* is of the call's interval and source.                                   *)
C30_OtherLabelsUntouched ==
    log # <<>> =>
      /\ OtherLabelled(store) = OtherLabelled(StoreAtCall)
      /\ \A rec \in store \ StoreAtCall :
           rec.interval = interval /\ rec.source = source
      /\ \A i \in LogEvents("query") :
           log[i].rows # None =>
             \A c \in RowSet(log[i].rows) :
               \E r \in log[i].store \ OtherLabelled(log[i].store) :
                 /\ r.symbol = c.symbol
                 /\ FromEpochSeconds(r.timestamp) = c.timestamp
                 /\ r.val = c.val

\* a returned call that wrote a record whose symbol and timestamp a
\* record of another interval or source shares
C30_Witness ==
    /\ Returned
    /\ \E i \in LogEvents("query") : log[i].hit
    /\ \E s \in LogEvents("save") :
         \E w \in RowSet(log[s].rows) : \E o \in OtherLabelled(store) :
           /\ o.symbol = w.symbol
           /\ o.timestamp = ToEpochSeconds(w.timestamp)
           /\ o.val # w.val

\* the ceiling of the window's length divided by the batch size
BatchCount ==
    LET d == dl_end - dl_start
        batch_size == GetIntervalDelta(dl_interval)
                        * (MAX_CANDLES_PER_REQUEST - 1)
    IN  IF d <= 0 THEN 0
        ELSE (d \div batch_size) + (IF d % batch_size = 0 THEN 0 ELSE 1)

(* C31: _create_batches returns for every start, end and label; with       *)
(* start >= end it returns the empty list without an iteration; with       *)
(* start < end every iteration moves the batch start forward and never     *)
(* past end, and the list returned has as many batches as the ceiling of   *)
(* (end - start) over N - 1 interval steps.                                *)
C31_CreateBatchesTerminates ==
    /\ <>(dl_pc = "planned")
    /\ [][/\ batches' # batches =>
              /\ dl_start < dl_end
              /\ CurrentStart < CurrentStart'
              /\ CurrentStart' <= dl_end
              /\ Len(batches') = Len(batches) + 1
          /\ (dl_pc = "plan" /\ dl_start >= dl_end) =>
              (dl_pc' = "planned" /\ batches' = <<>>)]_vars
    /\ [](dl_pc = "planned" =>
           /\ Len(batches) = BatchCount
           /\ CurrentStart >= dl_end
           /\ batches = CreateBatches(dl_start, dl_end, dl_interval))

\* a window off the interval grid and longer than two batches, planned
C31_Witness ==
    /\ dl_pc = "planned"
    /\ Len(batches) >= 3
    /\ (dl_end - dl_start) % BatchSize(dl_interval) # 0
    /\ dl_interval # "1h"

\* no DataManager.get_data that returned rows has completed since the
\* construction or since the last clear_cache
NoDataLoaded == last_data = None

\* the optional bounds a query is asked with
QueryBounds == {NoDate} \cup {<<t>> : t \in ManagerInstants}

(* C32: _cache_valid is true only if _data_cache holds a frame; and        *)
(* get_symbol_data raises ValueError, export_to_csv raises ValueError and  *)
(* get_available_symbols returns the empty list exactly when no get_data   *)
(* that returned rows has completed since the construction or since the    *)
(* last clear_cache.                                                       *)
C32_CacheValidity ==
    /\ cache_valid => data_cache # None
    /\ \A sym \in ManagerSymbols, start \in QueryBounds, end \in QueryBounds :
         GetSymbolData(data_cache, cache_valid, sym, start, end).raised
           <=> NoDataLoaded
    /\ ExportToCsv(data_cache, cache_valid).raised <=> NoDataLoaded
    /\ GetAvailableSymbols(data_cache, cache_valid) = <<>> <=> NoDataLoaded

\* a get_data that returned nothing after the cache was cleared of the
\* data an earlier get_data had written to the table
C32_Witness ==
    /\ mg_status = "empty"
    /\ pc = "idle"
    /\ ~cache_valid
    /\ store # {}

(* C33: the end of a DataManager.get_data whose downloader result is empty *)
(* leaves _data_cache and _cache_valid as they were; and after such a call *)
(* get_symbol_data serves, for every symbol, the rows of the last get_data *)
(* that returned rows.                                                     *)
C33_EmptyResultKeepsSnapshot ==
    /\ [][(pc = "done" /\ pc' = "idle" /\ outcome = "returned"
             /\ result = <<>>)
            => (data_cache' = data_cache /\ cache_valid' = cache_valid)]_vars
    /\ []((mg_status = "empty" /\ last_data # None) =>
            \A sym \in ManagerSymbols :
              GetSymbolData(data_cache, cache_valid, sym, NoDate, NoDate)
                = [raised |-> FALSE, rows |-> SymbolRows(last_data, sym)])

\* the latest get_data returned nothing and the snapshot holds rows of
\* the symbol and of the synthetic instrument, with features
C33_Witness ==
    /\ mg_status = "empty"
    /\ pc = "idle"
    /\ cache_valid
    /\ \E k \in 1..Len(data_cache) :
         data_cache[k].symbol = Synthetic /\ data_cache[k].columns # {}
    /\ Len(data_cache) >= 4

\* the sum of the quantities of the trades of the history that are of the
\* symbol and of one of the actions
RECURSIVE HistoryQuantity(_, _, _)
HistoryQuantity(history, sym, actions) ==
    IF history = <<>> THEN 0
    ELSE (IF Head(history).symbol = sym /\ Head(history).action \in actions
          THEN Head(history).quantity ELSE 0)
         + HistoryQuantity(Tail(history), sym, actions)

\* entries minus exits of a symbol
NetQuantity(history, sym) ==
    HistoryQuantity(history, sym, EntryActions)
      - HistoryQuantity(history, sym, ExitActions)

(* C34: after any sequence of add_trade calls, for every symbol            *)
(* has_open_position is true exactly when the quantities of its BUY and    *)
(* SHORT trades minus those of its SELL, CLOSE and COVER trades are more   *)
(* than zero, and Position.quantity is that difference; get_total_trades   *)
(* is the number of add_trade calls; and an add_trade appends its trade to *)
(* the history and leaves the position of every other symbol as it was.    *)
C34_PositionsFollowTrades ==
    /\ [](\A sym \in Symbols :
            /\ HasOpenPosition(positions, sym) <=> NetQuantity(trades, sym) > 0
            /\ IF HasPosition(positions, sym)
               THEN PositionOf(positions, sym).quantity
                      = NetQuantity(trades, sym)
               ELSE \A k \in 1..Len(trades) : trades[k].symbol # sym)
    /\ [](GetTotalTrades(trades) = add_calls)
    /\ [][add_calls' # add_calls =>
            /\ Len(trades') = Len(trades) + 1
            /\ SubSeq(trades', 1, Len(trades)) = trades
            /\ \A sym \in Symbols \ {trades'[Len(trades')].symbol} :
                 {p \in positions' : p.symbol = sym}
                   = {p \in positions : p.symbol = sym}]_vars

\* a position with an entry trade and an exit trade
C34_Witness ==
    /\ add_calls >= 2
    /\ \E sym \in Symbols :
         /\ HasPosition(positions, sym)
         /\ PositionOf(positions, sym).exit_trades # <<>>
         /\ PositionOf(positions, sym).entry_trades # <<>>

(* C35: the Book that load returns from the file save wrote of the Book    *)
(* has its name, its strategy registry, its trades in their order and, for *)
(* every symbol, its position quantity and open state.                     *)
C35_SaveLoadRoundTrip ==
    (/\ loaded # None
     /\ file = <<BookDocument(book_name, trades, strategy_registry)>>) =>
        LET book == loaded[1]
        IN  /\ book.name = book_name
            /\ book.strategy_registry = strategy_registry
            /\ book.trades = trades
            /\ \A sym \in Symbols :
                 /\ HasPosition(book.positions, sym)
                      <=> HasPosition(positions, sym)
                 /\ HasOpenPosition(book.positions, sym)
                      <=> HasOpenPosition(positions, sym)
                 /\ HasPosition(positions, sym) =>
                      PositionOf(book.positions, sym).quantity
                        = PositionOf(positions, sym).quantity

\* a Book with a registered strategy, an open and a closed position and
\* a trade inside a second, saved and loaded
C35_Witness ==
    /\ loaded # None
    /\ file = <<BookDocument(book_name, trades, strategy_registry)>>
    /\ strategy_registry # {}
    /\ Len(trades) >= 2
    /\ \E k \in 1..Len(trades) : trades[k].timestamp % TicksPerSecond # 0
    /\ \E sym \in Symbols : HasOpenPosition(positions, sym)
    /\ \E sym \in Symbols :
         HasPosition(positions, sym) /\ ~HasOpenPosition(positions, sym)

\* the candles of the snapshot that are of the symbol and before the
\* instant, oldest first
CandlesBefore(sym, t) ==
    LET Earlier(row) == row.symbol = sym /\ row.timestamp < t
    IN  SelectSeq(data_cache, Earlier)

\* a get_suggested_trades call has returned a list
Suggested == suggested # None /\ ~suggested[1].raised

(* C36: get_suggested_trades returns at most one trade, none when fewer    *)
(* than two candles of the symbol precede time_period; a SELL only when    *)
(* the position of the symbol is open and the close of the latest candle   *)
(* before time_period is lower than the close of the one before it; a BUY  *)
(* only when close and volume are both higher.                             *)
C36_SignalsRespectPosition ==
    Suggested =>
      LET candles == CandlesBefore(st_symbol, st_time)
          n == Len(candles)
          list == suggested[1].trades
      IN  /\ Len(list) <= 1
          /\ n < 2 => list = <<>>
          /\ \A k \in 1..Len(list) :
               /\ list[k].action.name = "SELL" =>
                    /\ HasOpenPosition(positions, st_symbol)
                    /\ candles[n].val.close < candles[n - 1].val.close
               /\ list[k].action.name = "BUY" =>
                    /\ candles[n].val.close > candles[n - 1].val.close
                    /\ candles[n].val.volume > candles[n - 1].val.volume
               /\ list[k].action.name \in {"BUY", "SELL"}

\* the lookbacks get_available_data is asked with
Lookbacks == {NoLookback} \cup {<<n>> : n \in 0..(MaxSec + 2)}

(* C37: get_available_data returns only rows of the symbol with a          *)
(* timestamp before end_date: all of them without lookback_periods, and    *)
(* with it the latest ones, at most that many; and a trade that            *)
(* get_suggested_trades returns for time_period carries time_period and    *)
(* the close of the latest candle before it, the frame it was computed     *)
(* from holding only candles before time_period.                           *)
C37_NoLookAhead ==
    (Suggested /\ cache_valid) =>
      LET candles == CandlesBefore(st_symbol, st_time)
          n == Len(candles)
      IN  /\ \A lookback \in Lookbacks :
               LET got == GetAvailableData(data_cache, cache_valid,
                                           st_symbol, st_time, lookback)
                   kept == IF lookback = NoLookback THEN n
                           ELSE Min({n, lookback[1]})
               IN  /\ ~got.raised
                   /\ got.rows = SubSeq(candles, n - kept + 1, n)
                   /\ \A k \in 1..Len(got.rows) :
                        /\ got.rows[k].symbol = st_symbol
                        /\ got.rows[k].timestamp < st_time
                   /\ \A k \in 1..(Len(got.rows) - 1) :
                        got.rows[k].timestamp < got.rows[k + 1].timestamp
          /\ \A k \in 1..Len(available) :
               /\ available[k].symbol = st_symbol
               /\ available[k].timestamp < st_time
          /\ \A k \in 1..Len(suggested[1].trades) :
               /\ suggested[1].trades[k].timestamp = st_time
               /\ suggested[1].trades[k].price = candles[n].val.close

\* a trade suggested at an instant where the snapshot holds a candle of
\* the symbol and a candle of the other symbol
C37_Witness ==
    /\ Suggested
    /\ suggested[1].trades # <<>>
    /\ \E k \in 1..Len(data_cache) :
         data_cache[k].timestamp = st_time /\ data_cache[k].symbol = st_symbol
    /\ \E k \in 1..Len(data_cache) : data_cache[k].symbol # st_symbol

====
